---- MODULE Spec2Model ----
(***************************************************************************)
(* Voice bridge of the gateway: one call of VoiceBridge.start, its two     *)
(* pump tasks (_twilio_to_personaplex, _personaplex_to_twilio), the        *)
(* transcript capture and post-call processing (_on_disconnect, _cleanup). *)
(* "Carrier" is the Twilio media-stream WebSocket, "AI" the PersonaPlex    *)
(* WebSocket.                                                              *)
(***************************************************************************)
EXTENDS Integers, Sequences, FiniteSets, TLC

(* ------------------------------ bounds -------------------------------- *)

\* facts with content the LLM returns for one conversation, at most
MaxFacts == 1
\* TranscriptCapture methods called in one direct run of the class
MaxOps == 4
\* frames _opus_encode rejects in one call, at most
MaxEncodeFailures == 1
\* digits of the telephone numbers normalize_e164 is tried with, at most
MaxDigits == 12
\* calls of normalize_e164 in one run, the first on an input and each
\* later one on the result of the one before
MaxPhoneCalls == 2
\* memories build_memory_context retrieves for one call, at most
MaxMemories == 2
\* elements of the JSON array the LLM returns to extract_facts, at most
MaxFactItems == 2
\* calls of chat() in one run
MaxChats == 2
\* bytes in a mu-law sequence given to mulaw_to_pcm, at most
MaxMulawLen == 3
\* voice calls whose user lookup is followed
MaxCalls == 2
\* concurrent callers of get_pool
MaxPoolCallers == 4
\* carrier WebSocket messages the carrier->AI pump receives in one call
MaxCarrierMsgs == 2
\* AI WebSocket messages the AI->carrier pump receives in one call
MaxAIMsgs == 2

(* ------------------------- program constants -------------------------- *)

PP_SAMPLE_RATE == 24000
OPUS_FRAME_MS == 20
OPUS_FRAME_SAMPLES == (PP_SAMPLE_RATE * OPUS_FRAME_MS) \div 1000
TWILIO_RATE == 8000
_MULAW_BIAS == 132
_MULAW_CLIP == 32635
PERSONAPLEX_RATE == 24000

\* Python's None
None == "None"
\* None as the value of db.connection._pool (pools are numbered from 1)
NoPool == 0
\* a dictionary without the key asked for
NoKey == "(no key)"
\* before extract_facts has had a reply
NoReply == [response |-> [json |-> "none", items |-> <<>>], channel |-> None]
\* before chat() has been called
NoChat == [provider |-> None, model |-> None, default_llm_provider |-> None]
\* before start() has composed a prompt
NoPrompt ==
  [composed |-> FALSE, memories |-> <<>>, override |-> [given |-> FALSE, text |-> <<>>]]

(* ------------------------------ inputs -------------------------------- *)

\* sizes (in mu-law bytes) of the carrier media payloads tried
MediaSizes == {160, 400}
\* stream ids a start envelope may carry
Sids == {"S1", "S2"}
\* 0x02 text tokens tried, as sequences of characters
Tokens == {<<" ">>, <<"a">>}
\* user notes tried with add_user_note
Notes == {<<" ">>, <<" ", "u">>}

\* What the carrier WebSocket can deliver to the carrier->AI pump.
\*   json = FALSE : a text frame json.loads rejects
\*   n = -1       : a media envelope whose payload base64 cannot decode
CarrierMsgs ==
       { [type |-> "TEXT", json |-> TRUE, event |-> "media", n |-> k, sid |-> None]
            : k \in MediaSizes \cup {-1} }
  \cup { [type |-> "TEXT", json |-> TRUE, event |-> "start", n |-> 0, sid |-> s]
            : s \in Sids \cup {None} }
  \cup { [type |-> "TEXT", json |-> TRUE, event |-> e, n |-> 0, sid |-> None]
            : e \in {"stop", "mark"} }
  \cup { [type |-> "TEXT", json |-> FALSE, event |-> None, n |-> 0, sid |-> None] }
  \cup { [type |-> t, json |-> FALSE, event |-> None, n |-> 0, sid |-> None]
            : t \in {"CLOSE", "ERROR"} }

\* What the AI WebSocket can deliver.
\*   kind = -1 : a binary message of length 0
\*   ok        : whether opus_decode accepts the payload of a 0x01 frame
\*   empty     : the message is a type byte with nothing after it (for a
\*               0x01 frame opus_decode is then called with length 0, and
\*               libopus may conceal the loss and return samples, or may
\*               return an error)
AIMsgs ==
       { [type |-> "BINARY", kind |-> 1, ok |-> b, tok |-> <<>>, empty |-> e]
            : b \in BOOLEAN, e \in BOOLEAN }
  \cup { [type |-> "BINARY", kind |-> 2, ok |-> TRUE, tok |-> t, empty |-> FALSE]
            : t \in Tokens }
  \cup { [type |-> "BINARY", kind |-> 2, ok |-> TRUE, tok |-> <<>>, empty |-> TRUE] }
  \cup { [type |-> "BINARY", kind |-> k, ok |-> TRUE, tok |-> <<>>, empty |-> e]
            : k \in {0, 3}, e \in BOOLEAN }
  \cup { [type |-> t, kind |-> -1, ok |-> TRUE, tok |-> <<>>, empty |-> FALSE]
            : t \in {"BINARY", "TEXT", "CLOSE", "ERROR"} }

\* First messages of the AI WebSocket tried (the payload after the first
\* byte plays no part in the handshake).
HandshakeMsgs ==
  { m \in AIMsgs : m.ok /\ m.tok = <<>> /\ m.kind # 3 /\ ~m.empty }

NoMsg == [type |-> None]

\* The tasks that call get_pool.
PoolCallers == 1..MaxPoolCallers

(* ------------------------------ state --------------------------------- *)

VARIABLES
  pc,               \* position of the session task inside start()
  exc,              \* exception start() is propagating (None: none)
  cancelled,        \* the session task has been cancelled from outside
  t2p,              \* state of the task running _twilio_to_personaplex
  p2t,              \* state of the task running _personaplex_to_twilio
  cancelReq,        \* tasks on which task.cancel() has been called
  _close,           \* VoiceBridge._close
  _stream_sid,      \* VoiceBridge._stream_sid
  _pcm_buffer,      \* VoiceBridge._pcm_buffer, as runs of samples
  _user_id,         \* VoiceBridge._user_id
  _conversation_id, \* VoiceBridge._conversation_id
  ppOpened,         \* the AI WebSocket was connected
  ppClosed,         \* _pp_ws.closed
  sessionOpened,    \* the aiohttp ClientSession was created
  sessionClosed,    \* _session.closed
  twClosed,         \* _twilio_ws.closed
  _tokens,          \* TranscriptCapture._tokens
  _assistant_text,  \* TranscriptCapture._assistant_text
  _turns,           \* TranscriptCapture._turns
  transcript,       \* local `transcript` of _on_disconnect
  full_text,        \* local `full_text` of _on_disconnect
  persistIdx,       \* turns of `transcript` already passed to add_message
  dbMessages,       \* rows add_message has inserted
  extractTasks,     \* fact-extraction tasks created
  disconnects,      \* calls of _on_disconnect
  ppOut,            \* messages sent on the AI WebSocket, in order
  twOut,            \* messages sent on the carrier WebSocket, in order
  handshakeMsg,     \* first message received from the AI WebSocket
  carrierCount,     \* messages the carrier->AI pump has received
  aiCount,          \* messages the AI->carrier pump has received
  samplesIn,        \* 24 kHz samples appended to _pcm_buffer so far
  decodedOpen,      \* AI 0x01 frames decoded while the carrier WS was open
  decodedAll,       \* AI 0x01 frames decoded
  firstSid,         \* the first stream id a start event has set
  encodeDropped,    \* frames _opus_encode rejected
  decodeFailed,     \* AI 0x01 frames _opus_decode rejected
  trigger,          \* a pump has received stop, close or error
  setupCalls,       \* database operations start() has called during setup
  _encoder,         \* VoiceBridge._encoder, the Opus encoder handle
  _decoder,         \* VoiceBridge._decoder, the Opus decoder handle
  extract,          \* state of the task running _extract_facts_background
  exFacts,          \* facts with content still to be stored by the task
  exSummary,        \* the summary the task obtained is non-empty
  llmCalls,         \* calls of llm_chat made by the task
  memories,         \* memories stored for the conversation
  ended,            \* calls of end_conversation that succeeded
  exBadItem,        \* the parsed reply has an element that is not an object
  exRaised,         \* the call inside the task that raised (None: none)
  tcOps,            \* TranscriptCapture methods called directly, in order
  mediaDiscarded,   \* carrier media messages dropped at the early return of
                    \* _send_pcm_to_personaplex
  carrierIgnored,   \* carrier messages whose event no branch of the pump takes
  aiIgnored,        \* AI messages whose kind no branch of the pump takes
  phone,            \* argument of the last call of normalize_e164
  e164,             \* what that call returned
  phoneCalls,       \* calls of normalize_e164 made
  users,            \* phone_number of the rows of the users table, by id
  upserts,          \* per voice call: the caller, the phone number passed
                    \* to get_or_create_user, and the user it returned
  promptIn,         \* the memories retrieved and the prompt override of a
                    \* call of start() whose prompt is followed
  memory_context,   \* local `memory_context` of start()
  text_prompt,      \* local `text_prompt` of start()
  factIn,           \* the reply of the LLM to extract_facts and the channel
                    \* of a process_conversation whose facts are followed
  facts,            \* local `facts` of process_conversation
  factIdx,          \* elements of `facts` its for loop has gone through
  stored,           \* the memories store_memory has inserted for it
  factPc,           \* where that process_conversation is
  chatIn,           \* arguments and settings of the current call of chat()
  chatPc,           \* where that call of chat() is
  providerCalls,    \* the provider calls it has made, with their outcomes
  chatResult,       \* the provider whose reply it returned
  chats,            \* calls of chat() made
  mulawData,        \* mu-law bytes given to mulaw_to_pcm
  pcm,              \* what mulaw_to_pcm returned for them, in 1/32768
  reencoded,        \* what pcm_to_mulaw returned for `pcm`
  pcm2,             \* what mulaw_to_pcm returned for `reencoded`
  mulawPc,          \* how far the round trip has gone
  _pool,            \* db.connection._pool: the pool's number, NoPool for None
  poolsCreated,     \* calls of asyncpg.create_pool that have completed
  poolCallers       \* per caller of get_pool: where it is, what it returned

vars == <<pc, exc, cancelled, t2p, p2t, cancelReq, _close, _stream_sid,
          _pcm_buffer, _user_id, _conversation_id, ppOpened, ppClosed,
          sessionOpened, sessionClosed, twClosed, _tokens, _assistant_text,
          _turns, transcript, full_text, persistIdx, dbMessages, extractTasks,
          disconnects, ppOut, twOut, handshakeMsg,
          carrierCount, aiCount, samplesIn, decodedOpen, decodedAll,
          firstSid, encodeDropped, decodeFailed, trigger,
          setupCalls, _encoder, _decoder, extract, exFacts, exSummary,
          llmCalls, memories, ended, exBadItem, exRaised, tcOps, mediaDiscarded,
          carrierIgnored, aiIgnored,
          phone, e164, phoneCalls, users, upserts,
          promptIn, memory_context, text_prompt,
          factIn, facts, factIdx, stored, factPc,
          chatIn, chatPc, providerCalls, chatResult, chats,
          mulawData, pcm, reencoded, pcm2, mulawPc,
          _pool, poolsCreated, poolCallers>>

sesVars == <<pc, exc, cancelled, cancelReq, _close, _user_id, _conversation_id,
             setupCalls, ppOpened, sessionOpened, sessionClosed, handshakeMsg>>
postVars == <<transcript, full_text, persistIdx, dbMessages, extractTasks,
              disconnects>>
capVars == <<_tokens, _assistant_text, _turns>>
t2pOwn == <<_stream_sid, _pcm_buffer, twClosed, ppOut, carrierCount,
            samplesIn, firstSid, encodeDropped, _encoder, mediaDiscarded,
            carrierIgnored>>
p2tOwn == <<twOut, aiCount, decodedOpen, decodedAll, decodeFailed, _decoder,
            aiIgnored>>
exRest == <<exFacts, exSummary, llmCalls, memories, ended, exBadItem, exRaised>>
exVars == <<extract, exRest>>
\* the variables of the telephone call and of its post-call processing
callVars == <<sesVars, postVars, capVars, t2pOwn, p2tOwn, t2p, p2t, ppClosed,
              trigger, exVars, tcOps>>
phoneVars == <<phone, e164, phoneCalls>>
\* the variables of the functions that are run on their own
userVars == <<users, upserts>>
promptVars == <<promptIn, memory_context, text_prompt>>
factVars == <<factIn, facts, factIdx, stored, factPc>>
chatVars == <<chatIn, chatPc, providerCalls, chatResult, chats>>
mulawVars == <<mulawData, pcm, reencoded, pcm2, mulawPc>>
poolVars == <<_pool, poolsCreated, poolCallers>>
fnVars == <<phoneVars, userVars, promptVars, factVars, chatVars, mulawVars,
            poolVars>>

\* As if a task that is merely suspended counted as finished: asyncio.wait
\* would return at once and the supervisor would cancel nothing.
Terminal_Suspended == {"returned", "raised", "cancelled", "recv", "sending"}

\* A task that has finished: returned, raised, or was cancelled.
Terminal == {"returned", "raised", "cancelled"}
PumpsStarted == t2p # "idle" /\ p2t # "idle"

Init ==
  /\ pc = "setup" /\ exc = None /\ cancelled = FALSE
  /\ t2p = "idle" /\ p2t = "idle" /\ cancelReq = {}
  /\ _close = FALSE /\ _stream_sid = None /\ _pcm_buffer = <<>>
  /\ _user_id = None /\ _conversation_id = None
  /\ ppOpened = FALSE /\ ppClosed = FALSE
  /\ sessionOpened = FALSE /\ sessionClosed = FALSE /\ twClosed = FALSE
  /\ _tokens = <<>> /\ _assistant_text = <<>> /\ _turns = <<>>
  /\ transcript = <<>> /\ full_text = <<>> /\ persistIdx = 0 /\ dbMessages = <<>>
  /\ extractTasks = 0 /\ disconnects = 0
  /\ ppOut = <<>> /\ twOut = <<>>
  /\ handshakeMsg = NoMsg
  /\ carrierCount = 0 /\ aiCount = 0 /\ samplesIn = 0
  /\ decodedOpen = <<>> /\ decodedAll = <<>>
  /\ firstSid = None /\ encodeDropped = <<>> /\ decodeFailed = <<>>
  /\ trigger = FALSE
  /\ setupCalls = <<>>
  /\ _encoder = "unset" /\ _decoder = "unset"
  /\ extract = "none" /\ exFacts = 0 /\ exSummary = FALSE
  /\ llmCalls = 0 /\ memories = 0 /\ ended = 0
  /\ exBadItem = FALSE /\ exRaised = None
  /\ tcOps = <<>>
  /\ mediaDiscarded = {} /\ carrierIgnored = {} /\ aiIgnored = {}
  /\ phone = None /\ e164 = None /\ phoneCalls = 0
  /\ users = <<>> /\ upserts = <<>>
  /\ promptIn = NoPrompt /\ memory_context = <<>> /\ text_prompt = <<>>
  /\ factIn = NoReply /\ facts = <<>> /\ factIdx = 0 /\ stored = <<>>
  /\ factPc = "idle"
  /\ chatIn = NoChat /\ chatPc = "idle" /\ providerCalls = <<>>
  /\ chatResult = None /\ chats = 0
  /\ mulawData = <<>> /\ pcm = <<>> /\ reencoded = <<>> /\ pcm2 = <<>>
  /\ mulawPc = "idle"
  /\ _pool = NoPool /\ poolsCreated = 0
  /\ poolCallers = [c \in PoolCallers |-> [pc |-> "idle", pool |-> NoPool]]

(* ------------------------- transcoder, buffer ------------------------- *)

\* transcoder.resample: the number of samples soxr returns.
ResampleLen(n, from_rate, to_rate) ==
  IF from_rate = to_rate THEN n ELSE (n * to_rate) \div from_rate

\* mulaw_8k_to_pcm_24k: one sample per mu-law byte, then 8 kHz -> 24 kHz.
Mulaw8kToPcm24kLen(n) == ResampleLen(n, TWILIO_RATE, PERSONAPLEX_RATE)

\* _pcm_buffer is kept as runs of samples: [id, lo, hi] is samples lo..hi-1
\* of the PCM produced from the id-th carrier message.
RECURSIVE BufLen(_)
BufLen(b) ==
  IF b = <<>> THEN 0 ELSE (Head(b).hi - Head(b).lo) + BufLen(Tail(b))

\* buf[:k]
RECURSIVE TakeSamples(_, _)
TakeSamples(b, k) ==
  IF k = 0 \/ b = <<>> THEN <<>>
  ELSE LET c == Head(b)
           n == c.hi - c.lo
       IN IF n <= k THEN <<c>> \o TakeSamples(Tail(b), k - n)
                    ELSE <<[c EXCEPT !.hi = c.lo + k]>>

\* buf[k:]
RECURSIVE DropSamples(_, _)
DropSamples(b, k) ==
  IF k = 0 \/ b = <<>> THEN b
  ELSE LET c == Head(b)
           n == c.hi - c.lo
       IN IF n <= k THEN DropSamples(Tail(b), k - n)
                    ELSE <<[c EXCEPT !.lo = c.lo + k]>> \o Tail(b)

\* The new samples put before the residual instead of after it.
ConcatPcm_Prepend(buf, id, n) ==
  IF n = 0 THEN buf ELSE <<[id |-> id, lo |-> 0, hi |-> n]>> \o buf

\* The new samples lost instead of appended.
ConcatPcm_Lossy(buf, id, n) == buf

\* np.concatenate([self._pcm_buffer, pcm_24k]), pcm_24k being n samples
\* produced from carrier message id.
ConcatPcm(buf, id, n) ==
  IF n = 0 THEN buf ELSE Append(buf, [id |-> id, lo |-> 0, hi |-> n])

\* The while condition with > for >=.
FrameReady_Strict(buf) == BufLen(buf) > OPUS_FRAME_SAMPLES

\* The while condition asking for any sample at all.
FrameReady_Any(buf) == BufLen(buf) > 0

\* The while condition of _send_pcm_to_personaplex.
FrameReady(buf) == BufLen(buf) >= OPUS_FRAME_SAMPLES

\* One run of the while loop of _send_pcm_to_personaplex from buffer buf up
\* to its next suspension: each frame taken is encoded; a frame _opus_encode
\* rejects (or encodes to nothing) is skipped and the loop goes on without
\* suspending; the first frame it accepts is sent, where the task suspends.
\* The result is the set of the possible (frames skipped, frame sent or
\* none, buffer left), with at most k frames rejected.
RECURSIVE SendPassOutcomes(_, _)
SendPassOutcomes(buf, k) ==
  IF FrameReady(buf)
    THEN LET frame == TakeSamples(buf, OPUS_FRAME_SAMPLES)
             after == DropSamples(buf, OPUS_FRAME_SAMPLES)
         IN {[dropped |-> <<>>, sent |-> <<frame>>, rest |-> after]}
            \cup (IF k = 0 THEN {}
                  ELSE {[o EXCEPT !.dropped = <<frame>> \o o.dropped]
                           : o \in SendPassOutcomes(after, k - 1)})
    ELSE {[dropped |-> <<>>, sent |-> <<>>, rest |-> buf]}

\* _opus_encode and _opus_decode: the codec handle after a use. It is
\* constructed when the attribute does not exist yet (hasattr) and kept
\* from then on.
HandleAfterUse(h) == IF h = "unset" THEN "created" ELSE h

\* The 0x01 message carrying the Opus packet of one frame.
AudioMsg(frame) == [kind |-> 1, frame |-> frame]

\* The effect of a run of the loop on the pump: a frame sent on the open AI
\* WebSocket leaves the task suspended in send_bytes; send_bytes on a
\* WebSocket closed meanwhile raises; no frame left returns to the receive.
SendPass(buf) ==
  \E o \in SendPassOutcomes(buf, MaxEncodeFailures - Len(encodeDropped)) :
    /\ _pcm_buffer' = o.rest
    /\ _encoder' = IF FrameReady(buf) THEN HandleAfterUse(_encoder) ELSE _encoder
    /\ encodeDropped' = encodeDropped \o o.dropped
    /\ IF o.sent = <<>>
         THEN t2p' = "recv" /\ ppOut' = ppOut
         ELSE IF ppClosed
                THEN t2p' = "raised" /\ ppOut' = ppOut
                ELSE t2p' = "sending" /\ ppOut' = Append(ppOut, AudioMsg(o.sent[1]))

(* ------------------------- transcript capture ------------------------- *)

IsSpace(c) == c = " "

\* "".join(parts)
RECURSIVE Join(_)
Join(parts) == IF parts = <<>> THEN <<>> ELSE Head(parts) \o Join(Tail(parts))

RECURSIVE LStrip(_)
LStrip(s) == IF s # <<>> /\ IsSpace(Head(s)) THEN LStrip(Tail(s)) ELSE s

RECURSIVE RStrip(_)
RStrip(s) ==
  IF s # <<>> /\ IsSpace(s[Len(s)]) THEN RStrip(SubSeq(s, 1, Len(s) - 1)) ELSE s

\* str.strip()
Strip(s) == RStrip(LStrip(s))

\* end_turn pushing the joined text as it is, not stripped.
EndTurn_NoStrip(assistant_text, turns) ==
  IF assistant_text # <<>> /\ Strip(Join(assistant_text)) # <<>>
    THEN Append(turns, [role |-> "assistant", content |-> Join(assistant_text)])
    ELSE turns

\* TranscriptCapture.end_turn: the turns after it.
EndTurn(assistant_text, turns) ==
  IF assistant_text # <<>> /\ Strip(Join(assistant_text)) # <<>>
    THEN Append(turns, [role |-> "assistant", content |-> Strip(Join(assistant_text))])
    ELSE turns

\* end_turn leaving the accumulator as it was.
AccumulatorAfterEndTurn_Kept(assistant_text) == assistant_text

\* TranscriptCapture.end_turn: the accumulator after it (an empty list
\* stays the empty list it was).
AccumulatorAfterEndTurn(assistant_text) == <<>>

\* TranscriptCapture.add_user_note: the turns after it.
AddUserNote(note, turns) ==
  IF Strip(note) # <<>>
    THEN Append(turns, [role |-> "user", content |-> Strip(note)])
    ELSE turns

\* get_full_text returning the text of the last token only.
GetFullText_LastToken(tokens) ==
  IF tokens = <<>> THEN <<>> ELSE tokens[Len(tokens)]

\* TranscriptCapture.get_full_text
GetFullText(tokens) == Join(tokens)

(* -------------------- start(): setup and handshake -------------------- *)

\* The database operations of the setup phase, in the order start() calls
\* them, up to and including the one that raised (r = "ok": none did).
SetupCallsUpTo(r) ==
  IF r = "user" THEN <<"get_or_create_user">>
  ELSE IF r = "memory" THEN <<"get_or_create_user", "build_memory_context">>
  ELSE <<"get_or_create_user", "build_memory_context", "create_conversation">>

\* As if start() caught the error of a setup operation and went on.
AfterSetupFailure_Continue == "connect"

\* Where start() goes when a setup operation raises: out, with the error.
AfterSetupFailure == "done"

\* start(): user upsert, memory retrieval, conversation record. Any of the
\* three may raise; nothing in start() catches it.
SessionSetup ==
  /\ pc = "setup"
  /\ \E r \in {"ok", "user", "memory", "conversation"} :
       /\ _user_id' = IF r = "user" THEN None ELSE "U1"
       /\ _conversation_id' = IF r = "ok" THEN "C1" ELSE None
       /\ setupCalls' = SetupCallsUpTo(r)
       /\ pc' = IF r = "ok" THEN "connect" ELSE AfterSetupFailure
       /\ exc' = IF r = "ok" THEN None ELSE "setup"
  /\ UNCHANGED <<cancelled, cancelReq, _close, ppOpened, sessionOpened,
                 sessionClosed, handshakeMsg>>
  /\ UNCHANGED <<postVars, exVars, tcOps, fnVars, capVars, t2pOwn, p2tOwn, t2p, p2t, ppClosed, trigger>>

\* start(): create the session and connect; on failure close the session and
\* re-raise.
SessionConnect ==
  /\ pc = "connect"
  /\ sessionOpened' = TRUE
  /\ \E ok \in BOOLEAN :
       /\ ppOpened' = ok
       /\ sessionClosed' = ~ok
       /\ pc' = IF ok THEN "handshake" ELSE "done"
       /\ exc' = IF ok THEN None ELSE "connect"
  /\ UNCHANGED <<cancelled, cancelReq, _close, _user_id, _conversation_id, setupCalls,
                 handshakeMsg>>
  /\ UNCHANGED <<postVars, exVars, tcOps, fnVars, capVars, t2pOwn, p2tOwn, t2p, p2t, ppClosed, trigger>>

\* Every message taken for the end of the stream.
ClosesOnReceive_AnyMessage(m) == TRUE

\* A WebSocket closes itself when receive() meets a close or an error.
ClosesOnReceive(m) == m.type \in {"CLOSE", "ERROR"}

\* The test start() makes on the first AI message before it goes on to the
\* pumps: only a message that is not BINARY fails the handshake (a BINARY
\* one with another first byte is logged as unexpected_first_message).
HandshakePassed(m) == m.type = "BINARY"

\* start(): the first AI message.
\*   BINARY of length 0 : data[0] raises IndexError out of start()
\*   handshake passed   : create the two pump tasks and wait
\*   otherwise          : _cleanup() and return
SessionHandshake ==
  /\ pc = "handshake"
  /\ \E m \in HandshakeMsgs :
       /\ handshakeMsg' = m
       /\ IF m.type = "BINARY" /\ m.kind = -1
            THEN /\ pc' = "done" /\ exc' = "handshake"
                 /\ UNCHANGED <<t2p, p2t, ppClosed, sessionClosed>>
            ELSE IF HandshakePassed(m)
                   THEN /\ pc' = "wait" /\ exc' = None
                        /\ t2p' = "recv" /\ p2t' = "recv"
                        /\ UNCHANGED <<ppClosed, sessionClosed>>
                   ELSE /\ pc' = "done" /\ exc' = None
                        /\ ppClosed' = TRUE /\ sessionClosed' = TRUE
                        /\ UNCHANGED <<t2p, p2t>>
  /\ UNCHANGED <<cancelled, cancelReq, _close, _user_id, _conversation_id, setupCalls,
                 ppOpened, sessionOpened>>
  /\ UNCHANGED <<postVars, exVars, tcOps, fnVars, capVars, t2pOwn, p2tOwn, trigger>>

(* ----------------------- carrier -> AI pump --------------------------- *)

\* The body of the async-for of _twilio_to_personaplex for message m,
\* which is the id-th the pump receives.
T2PHandle(m, id) ==
  IF ClosesOnReceive(m)
    THEN /\ twClosed' = TRUE /\ t2p' = "returned" /\ trigger' = TRUE
         /\ UNCHANGED <<_stream_sid, _pcm_buffer, ppOut, samplesIn, firstSid,
                        encodeDropped, _encoder, mediaDiscarded, carrierIgnored>>
  ELSE IF _close
    THEN /\ t2p' = "returned"
         /\ UNCHANGED <<_stream_sid, _pcm_buffer, ppOut, samplesIn, firstSid,
                        encodeDropped, _encoder, mediaDiscarded, carrierIgnored, twClosed, trigger>>
  ELSE IF m.type # "TEXT"
    THEN /\ t2p' = "recv"
         /\ UNCHANGED <<_stream_sid, _pcm_buffer, ppOut, samplesIn, firstSid,
                        encodeDropped, _encoder, mediaDiscarded, carrierIgnored, twClosed, trigger>>
  ELSE IF ~m.json
    THEN \* json.loads raises; nothing in the pump catches it
         /\ t2p' = "raised"
         /\ UNCHANGED <<_stream_sid, _pcm_buffer, ppOut, samplesIn, firstSid,
                        encodeDropped, _encoder, mediaDiscarded, carrierIgnored, twClosed, trigger>>
  ELSE IF m.event = "media"
    THEN IF m.n < 0
           THEN \* data["media"]["payload"] or b64decode raises
                /\ t2p' = "raised"
                /\ UNCHANGED <<_stream_sid, _pcm_buffer, ppOut, samplesIn,
                               firstSid, encodeDropped, _encoder, mediaDiscarded, carrierIgnored, twClosed, trigger>>
           ELSE IF ~ppOpened \/ ppClosed
                  THEN \* _send_pcm_to_personaplex returns at once
                       /\ t2p' = "recv"
                       /\ mediaDiscarded' = mediaDiscarded \cup {id}
                       /\ UNCHANGED carrierIgnored
                       /\ UNCHANGED <<_stream_sid, _pcm_buffer, ppOut, samplesIn,
                                      firstSid, encodeDropped, _encoder, twClosed,
                                      trigger>>
                  ELSE /\ samplesIn' = samplesIn + Mulaw8kToPcm24kLen(m.n)
                       /\ SendPass(ConcatPcm(_pcm_buffer, id, Mulaw8kToPcm24kLen(m.n)))
                       /\ UNCHANGED <<_stream_sid, firstSid, twClosed, trigger,
                                      mediaDiscarded, carrierIgnored>>
  ELSE IF m.event = "start"
    THEN /\ _stream_sid' = m.sid
         /\ firstSid' = IF firstSid = None THEN m.sid ELSE firstSid
         /\ t2p' = "recv"
         /\ UNCHANGED <<_pcm_buffer, ppOut, samplesIn, encodeDropped, _encoder, mediaDiscarded, carrierIgnored, twClosed,
                        trigger>>
  ELSE IF m.event = "stop"
    THEN /\ t2p' = "returned" /\ trigger' = TRUE
         /\ UNCHANGED <<_stream_sid, _pcm_buffer, ppOut, samplesIn, firstSid,
                        encodeDropped, _encoder, mediaDiscarded, carrierIgnored, twClosed>>
  ELSE \* an event the pump has no branch for
       /\ t2p' = "recv"
       /\ carrierIgnored' = carrierIgnored \cup {id}
       /\ UNCHANGED <<_stream_sid, _pcm_buffer, ppOut, samplesIn, firstSid,
                      encodeDropped, _encoder, mediaDiscarded, twClosed, trigger>>

\* The pump resumes from its receive with carrier message m.
T2PRecvMsg(m) ==
  /\ t2p = "recv" /\ "t2p" \notin cancelReq
  /\ ~twClosed
  /\ carrierCount < MaxCarrierMsgs
  /\ carrierCount' = carrierCount + 1
  /\ T2PHandle(m, carrierCount + 1)
  /\ UNCHANGED <<sesVars, postVars, exVars, tcOps, fnVars, capVars, p2tOwn, p2t, ppClosed>>

T2PRecv == \E m \in CarrierMsgs : T2PRecvMsg(m)

\* The pump resumes from send_bytes and goes on with the while loop.
T2PSendResume ==
  /\ t2p = "sending" /\ "t2p" \notin cancelReq
  /\ SendPass(_pcm_buffer)
  /\ UNCHANGED <<_stream_sid, twClosed, carrierCount, samplesIn, firstSid,
                 mediaDiscarded, carrierIgnored>>
  /\ UNCHANGED <<sesVars, postVars, exVars, tcOps, fnVars, capVars, p2tOwn, p2t, ppClosed, trigger>>

\* The carrier WebSocket was closed under the pump (the request handler
\* has ended): its receive gives a closed message and the async-for ends.
T2PRecvClosed ==
  /\ t2p = "recv" /\ "t2p" \notin cancelReq
  /\ twClosed
  /\ t2p' = "returned"
  /\ UNCHANGED <<sesVars, postVars, exVars, tcOps, fnVars, capVars, t2pOwn, p2tOwn, p2t, ppClosed, trigger>>

\* task.cancel(): CancelledError is thrown into the pump where it is suspended.
T2PCancelled ==
  /\ "t2p" \in cancelReq /\ t2p \notin Terminal
  /\ t2p' = "cancelled"
  /\ UNCHANGED <<sesVars, postVars, exVars, tcOps, fnVars, capVars, t2pOwn, p2tOwn, p2t, ppClosed, trigger>>

(* ----------------------- AI -> carrier pump --------------------------- *)

\* The envelope _send_mulaw_to_twilio builds for the audio of AI message id.
MediaEnvelope(id) == [event |-> "media", streamSid |-> _stream_sid, src |-> id]

\* _send_mulaw_to_twilio: the carrier messages after it.
SendMulawToTwilio(out, id) ==
  IF twClosed THEN out ELSE Append(out, MediaEnvelope(id))

\* _opus_decode gives PCM (not None) for this 0x01 message.
OpusDecodes(m) == m.ok

\* A decode failure that ends the pump.
AfterDecodeFailure_Raises == "raised"

\* What the pump does after a 0x01 frame whose decode failed.
AfterDecodeFailure == "recv"

\* The body of the async-for of _personaplex_to_twilio for message m, which
\* is the id-th the pump receives.
P2THandle(m, id) ==
  IF ClosesOnReceive(m)
    THEN /\ ppClosed' = TRUE /\ p2t' = "returned" /\ trigger' = TRUE
         /\ UNCHANGED <<aiIgnored, twOut, decodedOpen, decodedAll, decodeFailed, _decoder, capVars>>
  ELSE IF _close
    THEN /\ p2t' = "returned"
         /\ UNCHANGED <<aiIgnored, twOut, decodedOpen, decodedAll, decodeFailed, _decoder, capVars,
                        ppClosed, trigger>>
  ELSE IF m.type # "BINARY" \/ m.kind = -1
    THEN /\ p2t' = "recv"
         /\ UNCHANGED <<aiIgnored, twOut, decodedOpen, decodedAll, decodeFailed, _decoder, capVars,
                        ppClosed, trigger>>
  ELSE IF m.kind = 1
    THEN IF OpusDecodes(m)
           THEN /\ twOut' = SendMulawToTwilio(twOut, id)
                /\ decodedAll' = Append(decodedAll, id)
                /\ decodedOpen' = IF twClosed THEN decodedOpen
                                              ELSE Append(decodedOpen, id)
                /\ p2t' = "recv"
                /\ _decoder' = HandleAfterUse(_decoder)
                /\ UNCHANGED <<aiIgnored, decodeFailed, capVars, ppClosed, trigger>>
           ELSE /\ p2t' = AfterDecodeFailure
                /\ decodeFailed' = Append(decodeFailed, id)
                /\ _decoder' = HandleAfterUse(_decoder)
                /\ UNCHANGED <<aiIgnored, twOut, decodedOpen, decodedAll, capVars, ppClosed,
                               trigger>>
  ELSE IF m.kind = 2
    THEN \* TranscriptCapture.add_token
         /\ _tokens' = Append(_tokens, m.tok)
         /\ _assistant_text' = Append(_assistant_text, m.tok)
         /\ p2t' = "recv"
         /\ UNCHANGED <<aiIgnored, twOut, decodedOpen, decodedAll, decodeFailed, _decoder, _turns,
                        ppClosed, trigger>>
  ELSE \* kind 0x00 or a kind the pump has no branch for
       /\ p2t' = "recv"
       /\ aiIgnored' = aiIgnored \cup {id}
       /\ UNCHANGED <<twOut, decodedOpen, decodedAll, decodeFailed, _decoder, capVars,
                        ppClosed, trigger>>

\* The pump resumes from its receive with AI message m.
P2TRecvMsg(m) ==
  /\ p2t = "recv" /\ "p2t" \notin cancelReq
  /\ ~ppClosed
  /\ aiCount < MaxAIMsgs
  /\ aiCount' = aiCount + 1
  /\ P2THandle(m, aiCount + 1)
  /\ UNCHANGED <<sesVars, postVars, exVars, tcOps, fnVars, t2pOwn, t2p>>

P2TRecv == \E m \in AIMsgs : P2TRecvMsg(m)

\* The AI WebSocket was closed under the pump (by _cleanup): its receive
\* gives a closed message and the async-for ends.
P2TRecvClosed ==
  /\ p2t = "recv" /\ "p2t" \notin cancelReq
  /\ ppClosed
  /\ p2t' = "returned"
  /\ UNCHANGED <<sesVars, postVars, exVars, tcOps, fnVars, capVars, t2pOwn, p2tOwn, t2p, ppClosed, trigger>>

P2TCancelled ==
  /\ "p2t" \in cancelReq /\ p2t \notin Terminal
  /\ p2t' = "cancelled"
  /\ UNCHANGED <<sesVars, postVars, exVars, tcOps, fnVars, capVars, t2pOwn, p2tOwn, t2p, ppClosed, trigger>>

(* ------------------- start(): supervising the pumps ------------------- *)

\* The tasks asyncio.wait reports as pending.
Pending == {x \in {"t2p", "p2t"} : (IF x = "t2p" THEN t2p ELSE p2t) \notin Terminal}

\* What start() raises for a pump task that finished by raising: the task's
\* exception is never retrieved, so nothing.
PumpFailurePropagated == None

\* asyncio.wait(FIRST_COMPLETED) returns: set the closing flag and cancel
\* every pending task; start() then awaits each of them.
SessionWake ==
  /\ pc = "wait"
  /\ t2p \in Terminal \/ p2t \in Terminal
  /\ _close' = TRUE
  /\ cancelReq' = Pending
  /\ exc' = IF "raised" \in {t2p, p2t} THEN PumpFailurePropagated ELSE None
  /\ pc' = IF exc' = None THEN "await_pending" ELSE "finally"
  /\ UNCHANGED <<cancelled, _user_id, _conversation_id, setupCalls, ppOpened, sessionOpened,
                 sessionClosed, handshakeMsg>>
  /\ UNCHANGED <<postVars, exVars, tcOps, fnVars, capVars, t2pOwn, p2tOwn, t2p, p2t, ppClosed, trigger>>

\* Every cancelled task has finished (its CancelledError is swallowed): the
\* try block ends and the finally block begins.
SessionPendingDone ==
  /\ pc = "await_pending"
  /\ Pending = {}
  /\ pc' = "finally"
  /\ UNCHANGED <<exc, cancelled, cancelReq, _close, _user_id, _conversation_id, setupCalls,
                 ppOpened, sessionOpened, sessionClosed, handshakeMsg>>
  /\ UNCHANGED <<postVars, exVars, tcOps, fnVars, capVars, t2pOwn, p2tOwn, t2p, p2t, ppClosed, trigger>>

\* As if _on_disconnect followed the try block instead of sitting in its
\* finally block: a cancellation would leave start() at once.
AfterCancelInWait_NoFinally == "done"

\* Where the session task goes when it is cancelled inside asyncio.wait:
\* CancelledError leaves the try block, whose finally block runs.
AfterCancelInWait == "finally"

\* The session task is cancelled from outside while it waits.
\*   in asyncio.wait : CancelledError skips the rest of the try block; the
\*                     pumps are not cancelled and _close is not set
\*   in `await task` : the CancelledError is caught by the except clause
\*                     around the await, and the loop goes on
SessionCancel ==
  /\ ~cancelled
  /\ cancelled' = TRUE
  /\ \/ /\ pc = "wait"
        /\ pc' = AfterCancelInWait
        /\ exc' = "cancelled"
     \/ /\ pc = "await_pending"
        /\ UNCHANGED <<pc, exc>>
  /\ UNCHANGED <<cancelReq, _close, _user_id, _conversation_id, setupCalls, ppOpened,
                 sessionOpened, sessionClosed, handshakeMsg>>
  /\ UNCHANGED <<postVars, exVars, tcOps, fnVars, capVars, t2pOwn, p2tOwn, t2p, p2t, ppClosed, trigger>>

(* ------------------------- post-call processing ----------------------- *)

\* asyncio.create_task(self._extract_facts_background(pool)): the task is
\* created and start() keeps no reference to it.
CreateExtractTask ==
  /\ extractTasks' = extractTasks + 1
  /\ extract' = "created"

\* _on_disconnect up to its first suspension: the early return, the
\* transcript (get_transcript flushes the open turn), and without turns the
\* raw text; with neither, the extraction task is created at once.
OnDisconnectBegin ==
  /\ pc = "finally"
  /\ disconnects' = disconnects + 1
  /\ IF _conversation_id = None \/ _user_id = None
       THEN /\ pc' = "cleanup"
            /\ UNCHANGED <<capVars, transcript, full_text, persistIdx, extractTasks,
                           extract>>
       ELSE /\ _turns' = EndTurn(_assistant_text, _turns)
            /\ _assistant_text' = AccumulatorAfterEndTurn(_assistant_text)
            /\ _tokens' = _tokens
            /\ transcript' = _turns'
            /\ persistIdx' = 0
            /\ IF transcript' # <<>>
                 THEN /\ pc' = "persist"
                      /\ UNCHANGED <<full_text, extractTasks, extract>>
                 ELSE /\ full_text' = GetFullText(_tokens)
                      /\ IF full_text' # <<>>
                           THEN /\ pc' = "persist_fallback"
                                /\ UNCHANGED <<extractTasks, extract>>
                           ELSE /\ pc' = "cleanup"
                                /\ CreateExtractTask
  /\ UNCHANGED <<exc, cancelled, cancelReq, _close, _user_id, _conversation_id, setupCalls,
                 ppOpened, sessionOpened, sessionClosed, handshakeMsg>>
  /\ UNCHANGED <<dbMessages, t2pOwn, p2tOwn, t2p, p2t, ppClosed, trigger,
                 exRest, tcOps, fnVars>>

\* add_message inserting a row without the content.
MessageRow_NoContent(role, content) ==
  [conversation |-> _conversation_id, role |-> role, content |-> <<>>]

\* The row add_message inserts.
MessageRow(role, content) ==
  [conversation |-> _conversation_id, role |-> role, content |-> content]

\* _on_disconnect: add_message for the next turn of the transcript. A
\* database error leaves _on_disconnect and the finally block of start().
\* After the last turn the extraction task is created.
OnDisconnectPersistTurn ==
  /\ pc = "persist"
  /\ \E ok \in BOOLEAN :
       IF ok
         THEN /\ dbMessages' = Append(dbMessages,
                   MessageRow(transcript[persistIdx + 1].role,
                              transcript[persistIdx + 1].content))
              /\ persistIdx' = persistIdx + 1
              /\ IF persistIdx' = Len(transcript)
                   THEN pc' = "cleanup" /\ CreateExtractTask
                   ELSE pc' = "persist" /\ UNCHANGED <<extractTasks, extract>>
              /\ exc' = exc
         ELSE /\ pc' = "done" /\ exc' = "persist"
              /\ UNCHANGED <<dbMessages, persistIdx, extractTasks, extract>>
  /\ UNCHANGED <<cancelled, cancelReq, _close, _user_id, _conversation_id, setupCalls,
                 ppOpened, sessionOpened, sessionClosed, handshakeMsg>>
  /\ UNCHANGED <<exRest, tcOps, fnVars>>
  /\ UNCHANGED <<transcript, full_text, disconnects, capVars, t2pOwn, p2tOwn,
                 t2p, p2t, ppClosed, trigger>>

\* _on_disconnect without turns: one assistant message with the raw text,
\* stripped; then the extraction task is created.
OnDisconnectPersistFallback ==
  /\ pc = "persist_fallback"
  /\ \E ok \in BOOLEAN :
       IF ok
         THEN /\ dbMessages' = Append(dbMessages,
                   MessageRow("assistant", Strip(full_text)))
              /\ pc' = "cleanup" /\ CreateExtractTask
              /\ exc' = exc
         ELSE /\ pc' = "done" /\ exc' = "persist"
              /\ UNCHANGED <<dbMessages, extractTasks, extract>>
  /\ UNCHANGED <<cancelled, cancelReq, _close, _user_id, _conversation_id, setupCalls,
                 ppOpened, sessionOpened, sessionClosed, handshakeMsg>>
  /\ UNCHANGED <<exRest, tcOps, fnVars>>
  /\ UNCHANGED <<transcript, full_text, persistIdx, disconnects, capVars, t2pOwn,
                 p2tOwn, t2p, p2t, ppClosed, trigger>>

\* _cleanup: close the AI WebSocket and the HTTP session; start() then ends,
\* re-raising what the finally block interrupted.
SessionCleanup ==
  /\ pc = "cleanup"
  /\ ppClosed' = (ppOpened \/ ppClosed)
  /\ sessionClosed' = (sessionOpened \/ sessionClosed)
  /\ pc' = "done"
  /\ UNCHANGED <<exc, cancelled, cancelReq, _close, _user_id, _conversation_id, setupCalls,
                 ppOpened, sessionOpened, handshakeMsg>>
  /\ UNCHANGED <<postVars, exVars, tcOps, fnVars, capVars, t2pOwn, p2tOwn, t2p, p2t, trigger>>

\* handle_voice_stream: start() has exited (its exception, if any, logged
\* or passed on); the handler ends and the server closes the carrier
\* WebSocket.
HandlerExit ==
  /\ pc = "done"
  /\ ~twClosed
  /\ twClosed' = TRUE
  /\ UNCHANGED <<_stream_sid, _pcm_buffer, ppOut, carrierCount, samplesIn,
                 firstSid, encodeDropped, _encoder, mediaDiscarded, carrierIgnored>>
  /\ UNCHANGED <<sesVars, postVars, exVars, tcOps, fnVars, capVars, p2tOwn, t2p, p2t, ppClosed, trigger>>

(* ----------------------- fact-extraction task ------------------------ *)

\* As if _extract_facts_background had no try/except: the error would end
\* the task as its exception.
ExtractFailureHandling_Uncaught == "raised"

\* _extract_facts_background: `except Exception` catches what
\* process_conversation raises and logs voice_fact_extraction_failed.
ExtractFailureHandling == "logged"

\* What no step of the extraction task touches.
exOther == <<sesVars, postVars, capVars, t2pOwn, p2tOwn, t2p, p2t, ppClosed,
             trigger, tcOps, fnVars>>

\* process_conversation: pool.acquire and get_conversation_messages; with
\* no message it returns.
ExtractRead ==
  /\ extract = "created"
  /\ \E ok \in BOOLEAN :
       /\ extract' = IF ~ok THEN ExtractFailureHandling
                     ELSE IF dbMessages = <<>> THEN "done" ELSE "facts"
       /\ exRaised' = IF ok THEN None ELSE "get_conversation_messages"
  /\ UNCHANGED <<exFacts, exSummary, llmCalls, memories, ended, exBadItem, exOther>>

\* process_conversation: extract_facts, one llm_chat call. Of the list it
\* parses from the reply (empty when the reply is not a JSON array) the
\* task keeps what the for loop will meet: the number of facts with content
\* before the first element that is not an object, and whether there is
\* such an element.
ExtractFacts ==
  /\ extract = "facts"
  /\ llmCalls' = llmCalls + 1
  /\ \E ok \in BOOLEAN :
       IF ok THEN /\ extract' = "summary"
                  /\ exFacts' \in 0..MaxFacts
                  /\ exBadItem' \in BOOLEAN
                  /\ exRaised' = None
             ELSE /\ extract' = ExtractFailureHandling
                  /\ exFacts' = 0 /\ exBadItem' = FALSE
                  /\ exRaised' = "llm_chat"
  /\ UNCHANGED <<exSummary, memories, ended, exOther>>

\* process_conversation: extract_summary, one llm_chat call. (The locals
\* `facts` and `summary` go with the task when it ends.)
ExtractSummary ==
  /\ extract = "summary"
  /\ llmCalls' = llmCalls + 1
  /\ \E ok \in BOOLEAN :
       IF ok THEN /\ extract' = "store"
                  /\ exSummary' \in BOOLEAN
                  /\ UNCHANGED <<exFacts, exBadItem, exRaised>>
             ELSE /\ extract' = ExtractFailureHandling
                  /\ exSummary' = FALSE /\ exFacts' = 0 /\ exBadItem' = FALSE
                  /\ exRaised' = "llm_chat"
  /\ UNCHANGED <<memories, ended, exOther>>

\* process_conversation: store_memory (embedding, then insert) for the next
\* fact.
ExtractStoreFact ==
  /\ extract = "store" /\ exFacts > 0
  /\ \E ok \in BOOLEAN :
       IF ok THEN /\ memories' = memories + 1
                  /\ exFacts' = exFacts - 1
                  /\ UNCHANGED <<extract, exSummary, exBadItem, exRaised>>
             ELSE /\ extract' = ExtractFailureHandling
                  /\ memories' = memories
                  /\ exSummary' = FALSE /\ exFacts' = 0 /\ exBadItem' = FALSE
                  /\ exRaised' = "store_memory"
  /\ UNCHANGED <<llmCalls, ended, exOther>>

\* process_conversation: the for loop meets an element that is not an
\* object; fact.get raises AttributeError, which leaves the function.
ExtractBadFact ==
  /\ extract = "store" /\ exFacts = 0 /\ exBadItem
  /\ extract' = ExtractFailureHandling
  /\ exSummary' = FALSE /\ exBadItem' = FALSE
  /\ exRaised' = "fact.get"
  /\ UNCHANGED <<exFacts, llmCalls, memories, ended, exOther>>

\* process_conversation: after the facts, store_memory for a non-empty
\* summary.
ExtractStoreSummary ==
  /\ extract = "store" /\ exFacts = 0 /\ ~exBadItem
  /\ IF exSummary
       THEN \E ok \in BOOLEAN :
              IF ok THEN /\ memories' = memories + 1 /\ extract' = "end"
                         /\ exSummary' = exSummary
                         /\ exRaised' = exRaised
                    ELSE /\ memories' = memories
                         /\ extract' = ExtractFailureHandling
                         /\ exSummary' = FALSE
                         /\ exRaised' = "store_memory"
       ELSE /\ memories' = memories /\ extract' = "end"
            /\ exSummary' = exSummary
            /\ exRaised' = exRaised
  /\ UNCHANGED <<exFacts, llmCalls, ended, exBadItem, exOther>>

\* process_conversation: end_conversation writes the summary back.
ExtractEnd ==
  /\ extract = "end"
  /\ exSummary' = FALSE
  /\ \E ok \in BOOLEAN :
       IF ok THEN ended' = ended + 1 /\ extract' = "done" /\ exRaised' = exRaised
             ELSE /\ ended' = ended /\ extract' = ExtractFailureHandling
                  /\ exRaised' = "end_conversation"
  /\ UNCHANGED <<exFacts, llmCalls, memories, exBadItem, exOther>>

(* ---------------- TranscriptCapture, called directly ------------------ *)

\* What a direct call of a TranscriptCapture method leaves alone.
tcOther == <<sesVars, t2pOwn, p2tOwn, t2p, p2t, ppClosed, trigger, exVars,
             persistIdx, dbMessages, extractTasks, disconnects, fnVars>>

TcOp(name, arg) == [op |-> name, arg |-> arg]

\* add_token(text)
TcAddToken ==
  /\ Len(tcOps) < MaxOps
  /\ \E text \in Tokens :
       /\ _tokens' = Append(_tokens, text)
       /\ _assistant_text' = Append(_assistant_text, text)
       /\ tcOps' = Append(tcOps, TcOp("add_token", text))
  /\ UNCHANGED <<_turns, transcript, full_text, tcOther>>

\* end_turn()
TcEndTurn ==
  /\ Len(tcOps) < MaxOps
  /\ _turns' = EndTurn(_assistant_text, _turns)
  /\ _assistant_text' = AccumulatorAfterEndTurn(_assistant_text)
  /\ tcOps' = Append(tcOps, TcOp("end_turn", <<>>))
  /\ UNCHANGED <<_tokens, transcript, full_text, tcOther>>

\* add_user_note(note)
TcAddUserNote ==
  /\ Len(tcOps) < MaxOps
  /\ \E note \in Notes :
       /\ _turns' = AddUserNote(note, _turns)
       /\ tcOps' = Append(tcOps, TcOp("add_user_note", note))
  /\ UNCHANGED <<_tokens, _assistant_text, transcript, full_text, tcOther>>

\* get_transcript(): end_turn(), then a copy of the turns.
TcGetTranscript ==
  /\ Len(tcOps) < MaxOps
  /\ _turns' = EndTurn(_assistant_text, _turns)
  /\ _assistant_text' = AccumulatorAfterEndTurn(_assistant_text)
  /\ transcript' = _turns'
  /\ tcOps' = Append(tcOps, TcOp("get_transcript", <<>>))
  /\ UNCHANGED <<_tokens, full_text, tcOther>>

\* get_full_text(): the join of every token, kept in full_text.
TcGetFullText ==
  /\ Len(tcOps) < MaxOps
  /\ full_text' = GetFullText(_tokens)
  /\ tcOps' = Append(tcOps, TcOp("get_full_text", <<>>))
  /\ UNCHANGED <<capVars, transcript, tcOther>>

(* ------------------------ utils.phone, alone -------------------------- *)

IsDigit(c) == c \in {"0", "1", "2", "3", "4", "5", "6", "7", "8", "9"}

\* re.sub(r"[^\d+]", "", s): the digits and plus signs of s, in order.
RECURSIVE KeepDigitsAndPlus(_)
KeepDigitsAndPlus(s) ==
  IF s = <<>> THEN <<>>
  ELSE IF IsDigit(Head(s)) \/ Head(s) = "+"
    THEN <<Head(s)>> \o KeepDigitsAndPlus(Tail(s))
    ELSE KeepDigitsAndPlus(Tail(s))

\* s.startswith(c)
StartsWith(s, c) == s # <<>> /\ Head(s) = c

\* normalize_e164 putting a plus sign before whatever it kept.
normalize_e164_AlwaysPlus(x) == <<"+">> \o KeepDigitsAndPlus(Strip(x))

\* normalize_e164
normalize_e164(x) ==
  LET digits == KeepDigitsAndPlus(Strip(x))
  IN  IF StartsWith(digits, "+") THEN digits
      ELSE IF Len(digits) = 10 THEN <<"+", "1">> \o digits
      ELSE IF Len(digits) = 11 /\ StartsWith(digits, "1") THEN <<"+">> \o digits
      ELSE <<"+">> \o digits

\* The strings normalize_e164 is tried with: n digits, the first 1 or 4,
\* with at most one other character put somewhere among them, after one of
\* a few beginnings; and four ways of writing +1 415 555 0100.
DigitRun(n, d) == [i \in 1..n |-> IF i = 1 THEN d ELSE "5"]
InsertAt(s, k, c) == SubSeq(s, 1, k) \o <<c>> \o SubSeq(s, k + 1, Len(s))
Separators == {"-", " ", "+", "x"}
Beginnings == {<<>>, <<" ">>, <<"+">>, <<"(">>}
PhoneBodies ==
       { DigitRun(n, d) : n \in 0..MaxDigits, d \in {"1", "4"} }
  \cup { InsertAt(DigitRun(t[1], t[2]), t[3], t[4]) :
           t \in { u \in (1..MaxDigits) \X {"1", "4"} \X (0..MaxDigits) \X Separators :
                     u[3] <= u[1] } }
PhoneExamples ==
  { <<"+", "1", " ", "(", "4", "1", "5", ")", " ", "5", "5", "5", "-", "0", "1", "0", "0">>,
    <<"4", "1", "5", "-", "5", "5", "5", "-", "0", "1", "0", "0">>,
    <<"1", "4", "1", "5", "5", "5", "5", "0", "1", "0", "0">>,
    <<"+", "1", "4", "1", "5", "5", "5", "5", "0", "1", "0", "0">> }
PhoneInputs ==
  { b \o body : b \in Beginnings, body \in PhoneBodies } \cup PhoneExamples

\* What a call of normalize_e164 leaves alone.
phoneOther == <<callVars, userVars, promptVars, factVars, chatVars, mulawVars,
                poolVars>>

\* normalize_e164(x) for an input x.
NormalizeInput ==
  /\ phoneCalls = 0
  /\ \E x \in PhoneInputs :
       /\ phone' = x
       /\ e164' = normalize_e164(x)
  /\ phoneCalls' = 1
  /\ UNCHANGED phoneOther

\* normalize_e164 of what the call before returned.
NormalizeAgain ==
  /\ phoneCalls > 0 /\ phoneCalls < MaxPhoneCalls
  /\ phone' = e164
  /\ e164' = normalize_e164(e164)
  /\ phoneCalls' = phoneCalls + 1
  /\ UNCHANGED phoneOther

(* ------------------- the caller of a voice call ----------------------- *)

\* The caller strings voice calls are tried with: the four ways of writing
\* +1 415 555 0100 and some runs of 10 and 11 digits, with and without a
\* plus sign.
CallerStrings ==
  PhoneExamples \cup
  { b \o DigitRun(n, d) : b \in {<<>>, <<"+">>}, n \in {10, 11}, d \in {"1", "4"} }

\* handle_voice_stream and start(): the phone number get_or_create_user is
\* called with for a caller; the query value is handed on as it is.
CallerPhoneNumber(caller) == caller

\* get_or_create_user: the id of the row with this phone_number, a new row
\* when there is none.
UserIdOf(table, phone_number) ==
  IF \E i \in 1..Len(table) : table[i] = phone_number
    THEN CHOOSE i \in 1..Len(table) : table[i] = phone_number
    ELSE Len(table) + 1
UsersAfter(table, phone_number) ==
  IF \E i \in 1..Len(table) : table[i] = phone_number
    THEN table ELSE Append(table, phone_number)

\* What the user lookup of a voice call leaves alone.
userOther == <<callVars, phoneVars, promptVars, factVars, chatVars, mulawVars,
               poolVars>>

\* A voice call up to the user lookup: handle_voice_stream reads the
\* caller and start() calls get_or_create_user.
VoiceCallUpsert ==
  /\ Len(upserts) < MaxCalls
  /\ \E caller \in CallerStrings :
       LET phone_number == CallerPhoneNumber(caller)
       IN  /\ users' = UsersAfter(users, phone_number)
           /\ upserts' = Append(upserts, [caller |-> caller,
                                          phone_number |-> phone_number,
                                          user |-> UserIdOf(users, phone_number)])
  /\ UNCHANGED userOther

(* ------------------- the text prompt of a call ------------------------ *)

\* Texts are sequences of pieces; a piece is one character or a word that
\* is never split.
NL == "\n"
BasePrompt ==
  <<"You are a helpful, friendly AI assistant having a voice conversation. ",
    "Be natural and conversational.">>

\* The memory rows tried, and the values of text_prompt_override.
MemoryRows == [type : {"fact", "preference", NoKey}, content : {"Alice", "dark"}]
RECURSIVE SeqsUpTo(_, _)
SeqsUpTo(S, n) ==
  IF n = 0 THEN {<<>>}
  ELSE SeqsUpTo(S, n - 1) \cup
       {Append(q, x) : q \in {r \in SeqsUpTo(S, n - 1) : Len(r) = n - 1}, x \in S}
MemoryLists == SeqsUpTo(MemoryRows, MaxMemories)
\* given = FALSE is Python's None
PromptOverrides ==
  { [given |-> FALSE, text |-> <<>>], [given |-> TRUE, text |-> <<>>],
    [given |-> TRUE, text |-> <<"Be brief.">>] }

\* "\n".join(lines)
RECURSIVE JoinLines(_)
JoinLines(lines) ==
  IF lines = <<>> THEN <<>>
  ELSE IF Len(lines) = 1 THEN Head(lines)
  ELSE Head(lines) \o <<NL>> \o JoinLines(Tail(lines))

\* mem.get("type") with no default.
MemoryType_NoDefault(mem) == mem.type

\* mem.get("type", "fact")
MemoryType(mem) == IF mem.type = NoKey THEN "fact" ELSE mem.type

\* f"- [{mtype}] {content}"
MemoryLine(mem) == <<"-", " ", "[", MemoryType(mem), "]", " ", mem.content>>

\* retrieval.format_memories_for_prompt
format_memories_for_prompt(mems) ==
  IF mems = <<>> THEN <<>>
  ELSE JoinLines(<< <<"<memories>">> >>
                 \o [i \in 1..Len(mems) |-> MemoryLine(mems[i])]
                 \o << <<"</memories>">> >>)

\* start(): base_prompt, for an override that is None, empty or a text.
PromptBase(override) ==
  IF override.given /\ override.text # <<>> THEN override.text ELSE BasePrompt

\* start(): text_prompt
ComposeTextPrompt(override, context) ==
  IF context # <<>> THEN PromptBase(override) \o <<NL, NL>> \o context
                    ELSE PromptBase(override)

\* What composing the prompt leaves alone.
promptOther == <<callVars, phoneVars, userVars, factVars, chatVars, mulawVars,
                 poolVars>>

\* start(): build_memory_context returns the rendering of the memories it
\* retrieved, and the text prompt is composed from it.
StartComposePrompt ==
  /\ ~promptIn.composed
  /\ \E mems \in MemoryLists, override \in PromptOverrides :
       /\ promptIn' = [composed |-> TRUE, memories |-> mems,
                       override |-> override]
       /\ memory_context' = format_memories_for_prompt(mems)
       /\ text_prompt' = ComposeTextPrompt(override, memory_context')
  /\ UNCHANGED promptOther

(* ---------------- extract_facts and the facts it gives ---------------- *)

\* The elements of a JSON array tried: an object with or without "type"
\* and with "content" a text, the empty text or absent; and a JSON value
\* that is not an object (a string, a number).
FactItems ==
       [obj : {TRUE}, type : {"preference", NoKey}, content : {"likes tea", "", NoKey}]
  \cup {[obj |-> FALSE, type |-> NoKey, content |-> NoKey]}

\* The replies of the LLM tried: text that is not JSON, a JSON object, and
\* JSON arrays of up to MaxFactItems elements.
LlmReplies ==
       {[json |-> j, items |-> <<>>] : j \in {"invalid", "object"}}
  \cup {[json |-> "array", items |-> q] : q \in SeqsUpTo(FactItems, MaxFactItems)}

\* extract_facts: json.loads, [] for a value that is not a list and for a
\* JSONDecodeError.
ParseFacts(response) ==
  IF response.json = "array" THEN response.items ELSE <<>>

\* What the store_memory call of the for loop inserts for a fact.
FactMemory(fact, channel) ==
  [type |-> IF fact.type = NoKey THEN "fact" ELSE fact.type,
   content |-> fact.content,
   source_channel |-> channel,
   source_conversation_id |-> "C1"]

\* What the facts of a process_conversation leave alone.
factOther == <<callVars, phoneVars, userVars, promptVars, chatVars, mulawVars,
               poolVars>>

\* process_conversation: extract_facts (the reply of llm_chat parsed).
FactsExtract ==
  /\ factPc = "idle"
  /\ \E response \in LlmReplies, channel \in {"voice", "text"} :
       /\ factIn' = [response |-> response, channel |-> channel]
       /\ facts' = ParseFacts(response)
  /\ factPc' = "loop"
  /\ UNCHANGED <<factIdx, stored, factOther>>

\* process_conversation: one pass of `for fact in facts`. fact.get on an
\* element that is not a dict raises AttributeError; store_memory may fail.
FactsStoreNext ==
  /\ factPc = "loop" /\ factIdx < Len(facts)
  /\ LET fact == facts[factIdx + 1]
     IN  IF ~fact.obj
           THEN /\ factPc' = "attribute_error"
                /\ UNCHANGED <<factIdx, stored>>
         ELSE IF fact.content = NoKey \/ fact.content = ""
           THEN /\ factIdx' = factIdx + 1
                /\ UNCHANGED <<factPc, stored>>
         ELSE \E ok \in BOOLEAN :
                IF ok THEN /\ stored' = Append(stored, FactMemory(fact, factIn.channel))
                           /\ factIdx' = factIdx + 1
                           /\ UNCHANGED factPc
                      ELSE /\ factPc' = "store_error"
                           /\ UNCHANGED <<factIdx, stored>>
  /\ UNCHANGED <<factIn, facts, factOther>>

\* process_conversation: the for loop is over.
FactsLoopEnd ==
  /\ factPc = "loop" /\ factIdx = Len(facts)
  /\ factPc' = "done"
  /\ UNCHANGED <<factIn, facts, factIdx, stored, factOther>>

(* ------------------------- llm_client.chat ---------------------------- *)

\* settings.default_llm_model
default_llm_model == "claude-sonnet-4-20250514"

\* The provider names with a chat function (_get_chat_fn raises ValueError
\* for any other).
Providers == {"claude", "openai"}

\* A failover that tries the same provider again.
FailoverOf_Same(provider) == provider

\* _FAILOVER
FailoverOf(provider) == IF provider = "claude" THEN "openai" ELSE "claude"

\* _DEFAULT_MODELS
DefaultModelOf(provider) ==
  IF provider = "claude" THEN "claude-sonnet-4-20250514" ELSE "gpt-4o"

\* chat(): `provider or settings.default_llm_provider` and
\* `model or settings.default_llm_model`.
ChatProvider(in) ==
  IF in.provider = None THEN in.default_llm_provider ELSE in.provider
ChatModel(in) == IF in.model = None THEN default_llm_model ELSE in.model

\* The arguments and settings chat() is tried with.
ChatInputs ==
  [provider : Providers \cup {None, "gemini"},
   model : {None, "gpt-4o", "claude-sonnet-4-20250514"},
   default_llm_provider : Providers]

ProviderCall(provider, model, outcome) ==
  [provider |-> provider, model |-> model, outcome |-> outcome]

\* What a call of chat() leaves alone.
chatOther == <<callVars, phoneVars, userVars, promptVars, factVars, mulawVars,
               poolVars>>

\* chat() up to its await of the chat function of the provider;
\* _get_chat_fn raises for a provider it does not know.
ChatCall ==
  /\ chatPc \in {"idle", "returned", "raised"} /\ chats < MaxChats
  /\ chats' = chats + 1
  /\ chatResult' = None
  /\ \E in \in ChatInputs :
       /\ chatIn' = in
       /\ IF ChatProvider(in) \in Providers
            THEN /\ chatPc' = "primary"
                 /\ providerCalls' =
                      <<ProviderCall(ChatProvider(in), ChatModel(in), "pending")>>
            ELSE /\ chatPc' = "raised"
                 /\ providerCalls' = <<>>
  /\ UNCHANGED chatOther

\* chat(): the chat function returns, or raises and the except clause calls
\* the chat function of the failover provider with its default model.
ChatPrimaryDone ==
  /\ chatPc = "primary"
  /\ \E ok \in BOOLEAN :
       IF ok
         THEN /\ providerCalls' = <<[providerCalls[1] EXCEPT !.outcome = "ok"]>>
              /\ chatResult' = providerCalls[1].provider
              /\ chatPc' = "returned"
         ELSE LET fallback_provider == FailoverOf(ChatProvider(chatIn))
              IN  /\ providerCalls' =
                       << [providerCalls[1] EXCEPT !.outcome = "error"],
                          ProviderCall(fallback_provider,
                                       DefaultModelOf(fallback_provider), "pending") >>
                  /\ chatResult' = chatResult
                  /\ chatPc' = "fallback"
  /\ UNCHANGED <<chatIn, chats, chatOther>>

\* chat(): the chat function of the failover provider returns or raises.
ChatFallbackDone ==
  /\ chatPc = "fallback"
  /\ \E ok \in BOOLEAN :
       IF ok
         THEN /\ providerCalls' = [providerCalls EXCEPT ![2].outcome = "ok"]
              /\ chatResult' = providerCalls[2].provider
              /\ chatPc' = "returned"
         ELSE /\ providerCalls' = [providerCalls EXCEPT ![2].outcome = "error"]
              /\ chatResult' = chatResult
              /\ chatPc' = "raised"
  /\ UNCHANGED <<chatIn, chats, chatOther>>

(* --------------------- transcoder: G.711 mu-law ----------------------- *)

\* A float32 sample is kept as the integer s with value s / 32768: every
\* entry of the decode table is such a value exactly.
PcmUnit == 32768

Pow2(e) == [k \in 0..15 |-> IF k = 0 THEN 1 ELSE 2 ^ k][e]

\* A decode table built with the mantissa shifted by 4 instead of 3.
MulawDecodeSample_Shift4(i) ==
  LET val == 255 - i
      exponent == (val \div 16) % 8
      mantissa == val % 16
      sample == (mantissa * 16 + _MULAW_BIAS) * Pow2(exponent) - _MULAW_BIAS
  IN  IF val >= 128 THEN -sample ELSE sample

\* _MULAW_DECODE_TABLE[i], times 32768.
MulawDecodeSample(i) ==
  LET val == 255 - i                     \* ~_i & 0xFF
      exponent == (val \div 16) % 8      \* (_val >> 4) & 0x07
      mantissa == val % 16               \* _val & 0x0F
      sample == (mantissa * 8 + _MULAW_BIAS) * Pow2(exponent) - _MULAW_BIAS
  IN  IF val >= 128 THEN -sample ELSE sample

\* mulaw_to_pcm: one table entry per byte.
mulaw_to_pcm(data) == [k \in 1..Len(data) |-> MulawDecodeSample(data[k])]

\* sample & (1 << k) is not zero
BitSet(sample, k) == (sample \div Pow2(k)) % 2 = 1

\* _encode_mulaw_sample without the final complement.
_encode_mulaw_sample_NoComplement(sample) ==
  LET sign == IF sample < 0 THEN 128 ELSE 0
      magnitude == IF sample < 0 THEN -sample ELSE sample
      biased == (IF magnitude > _MULAW_CLIP THEN _MULAW_CLIP ELSE magnitude) + _MULAW_BIAS
      found == {e \in 1..7 : BitSet(biased, e + 7)}
      exponent == IF found = {} THEN 0 ELSE CHOOSE e \in found : \A f \in found : f <= e
      mantissa == (biased \div Pow2(exponent + 3)) % 16
  IN  sign + exponent * 16 + mantissa

\* _encode_mulaw_sample: the loop tries the mask 0x4000 for exponent 7 down
\* to 0x0100 for exponent 1 and stops at the first bit set.
_encode_mulaw_sample(sample) ==
  LET sign == IF sample < 0 THEN 128 ELSE 0
      magnitude == IF sample < 0 THEN -sample ELSE sample
      biased == (IF magnitude > _MULAW_CLIP THEN _MULAW_CLIP ELSE magnitude) + _MULAW_BIAS
      found == {e \in 1..7 : BitSet(biased, e + 7)}
      exponent == IF found = {} THEN 0 ELSE CHOOSE e \in found : \A f \in found : f <= e
      mantissa == (biased \div Pow2(exponent + 3)) % 16
  IN  255 - (sign + exponent * 16 + mantissa)

\* (np.clip(x, -1, 1) * 32767).astype(np.int16) for x = s / 32768: the
\* product s * 32767 / 32768 lies strictly between s - 1 and s when s > 0,
\* further from s than float32 rounds, and astype drops the fraction.
PcmToInt16(s) ==
  LET c == IF s > PcmUnit THEN PcmUnit ELSE IF s < -PcmUnit THEN -PcmUnit ELSE s
  IN  IF c >= 0 THEN (c * 32767) \div PcmUnit ELSE -(((-c) * 32767) \div PcmUnit)

\* pcm_to_mulaw: _MULAW_ENCODE_TABLE holds _encode_mulaw_sample of every
\* int16.
pcm_to_mulaw(samples) ==
  [k \in 1..Len(samples) |-> _encode_mulaw_sample(PcmToInt16(samples[k]))]

\* The byte sequences tried: up to MaxMulawLen bytes starting at any byte
\* and going on in steps of 0, 1 or 85.
MulawInputs ==
  { [k \in 1..n |-> (b + (k - 1) * step) % 256] :
      n \in 0..MaxMulawLen, b \in 0..255, step \in {0, 1, 85} }

\* What the transcoder functions leave alone.
mulawOther == <<callVars, phoneVars, userVars, promptVars, factVars, chatVars,
                poolVars>>

\* mulaw_to_pcm(data)
MulawDecode ==
  /\ mulawPc = "idle"
  /\ \E data \in MulawInputs :
       /\ mulawData' = data
       /\ pcm' = mulaw_to_pcm(data)
  /\ mulawPc' = "decoded"
  /\ UNCHANGED <<reencoded, pcm2, mulawOther>>

\* pcm_to_mulaw of the decoded samples, and mulaw_to_pcm of the result.
MulawRoundTrip ==
  /\ mulawPc = "decoded"
  /\ reencoded' = pcm_to_mulaw(pcm)
  /\ pcm2' = mulaw_to_pcm(reencoded')
  /\ mulawPc' = "roundtrip"
  /\ UNCHANGED <<mulawData, pcm, mulawOther>>

(* ------------------------ db.connection.get_pool ---------------------- *)

\* What a step of get_pool leaves alone.
poolOther == <<callVars, phoneVars, userVars, promptVars, factVars, chatVars,
               mulawVars>>

\* get_pool up to its first suspension: with a pool it returns it; with
\* `_pool is None` it calls asyncpg.create_pool and is suspended there.
GetPoolBegin(c) ==
  /\ poolCallers[c].pc = "idle"
  /\ poolCallers' =
       [poolCallers EXCEPT ![c] =
          IF _pool = NoPool THEN [pc |-> "creating", pool |-> NoPool]
                            ELSE [pc |-> "returned", pool |-> _pool]]
  /\ UNCHANGED <<_pool, poolsCreated, poolOther>>

\* create_pool completes: the new pool is assigned to _pool and returned;
\* or it raises, and the error leaves get_pool.
GetPoolCreated(c) ==
  /\ poolCallers[c].pc = "creating"
  /\ \E ok \in BOOLEAN :
       IF ok
         THEN /\ poolsCreated' = poolsCreated + 1
              /\ _pool' = poolsCreated + 1
              /\ poolCallers' =
                   [poolCallers EXCEPT ![c] = [pc |-> "returned", pool |-> _pool']]
         ELSE /\ poolCallers' =
                   [poolCallers EXCEPT ![c] = [pc |-> "raised", pool |-> NoPool]]
              /\ UNCHANGED <<_pool, poolsCreated>>
  /\ UNCHANGED poolOther

(* --------------------------- specification ---------------------------- *)

Next ==
  \/ SessionSetup
  \/ SessionConnect
  \/ SessionHandshake
  \/ T2PRecv
  \/ T2PSendResume
  \/ T2PRecvClosed
  \/ T2PCancelled
  \/ P2TRecv
  \/ P2TRecvClosed
  \/ P2TCancelled
  \/ SessionWake
  \/ SessionPendingDone
  \/ SessionCancel
  \/ OnDisconnectBegin
  \/ OnDisconnectPersistTurn
  \/ OnDisconnectPersistFallback
  \/ SessionCleanup
  \/ HandlerExit

\* The call up to the creation of the fact-extraction task; the steps of
\* that task, which start() never awaits, are in ExSpec.
Spec == Init /\ [][Next]_vars

\* Scheduling: the event loop runs every task that can run. The session task
\* and the pumps' own continuations are fair; the arrival of messages and of
\* an outside cancellation is not.
Fairness ==
  /\ WF_vars(SessionWake)
  /\ WF_vars(SessionPendingDone)
  /\ WF_vars(OnDisconnectBegin)
  /\ WF_vars(OnDisconnectPersistTurn)
  /\ WF_vars(OnDisconnectPersistFallback)
  /\ WF_vars(SessionCleanup)
  /\ WF_vars(T2PSendResume)
  /\ WF_vars(T2PCancelled)
  /\ WF_vars(P2TCancelled)
  /\ WF_vars(P2TRecvClosed)
  /\ WF_vars(T2PRecvClosed)
  /\ WF_vars(HandlerExit)

FairSpec == Spec /\ Fairness

\* The call together with its fact-extraction task, on a quiet line: the
\* carrier sends nothing but stop, the AI nothing but text tokens and close,
\* so no audio is in flight.
ExCarrierMsgs == {m \in CarrierMsgs : m.type = "TEXT" /\ m.json /\ m.event = "stop"}
ExAIMsgs ==
  {m \in AIMsgs : (m.type = "BINARY" /\ m.kind = 2 /\ ~m.empty) \/ m.type = "CLOSE"}

ExNext ==
  \/ SessionSetup
  \/ SessionConnect
  \/ SessionHandshake
  \/ \E m \in ExCarrierMsgs : T2PRecvMsg(m)
  \/ T2PRecvClosed
  \/ T2PCancelled
  \/ \E m \in ExAIMsgs : P2TRecvMsg(m)
  \/ P2TRecvClosed
  \/ P2TCancelled
  \/ SessionWake
  \/ SessionPendingDone
  \/ SessionCancel
  \/ OnDisconnectBegin
  \/ OnDisconnectPersistTurn
  \/ OnDisconnectPersistFallback
  \/ SessionCleanup
  \/ HandlerExit
  \/ ExtractRead
  \/ ExtractFacts
  \/ ExtractSummary
  \/ ExtractStoreFact
  \/ ExtractBadFact
  \/ ExtractStoreSummary
  \/ ExtractEnd

ExSpec == Init /\ [][ExNext]_vars

\* The TranscriptCapture class on its own: any sequence of its methods, up
\* to MaxOps calls, on a new object.
TcNext ==
  \/ TcAddToken
  \/ TcEndTurn
  \/ TcAddUserNote
  \/ TcGetTranscript
  \/ TcGetFullText

TcSpec == Init /\ [][TcNext]_vars

\* normalize_e164 on its own.
PhNext ==
  \/ NormalizeInput
  \/ NormalizeAgain

PhSpec == Init /\ [][PhNext]_vars

\* The user lookups of successive voice calls.
CallerNext ==
  \/ VoiceCallUpsert

CallerSpec == Init /\ [][CallerNext]_vars

\* The text prompt of a call.
PromptNext ==
  \/ StartComposePrompt

PromptSpec == Init /\ [][PromptNext]_vars

\* The facts of one process_conversation.
FactNext ==
  \/ FactsExtract
  \/ FactsStoreNext
  \/ FactsLoopEnd

FactSpec == Init /\ [][FactNext]_vars

\* Calls of llm_client.chat, one after the other.
ChatNext ==
  \/ ChatCall
  \/ ChatPrimaryDone
  \/ ChatFallbackDone

ChatSpec == Init /\ [][ChatNext]_vars

\* The mu-law functions of the transcoder on their own.
MulawNext ==
  \/ MulawDecode
  \/ MulawRoundTrip

MulawSpec == Init /\ [][MulawNext]_vars

\* Concurrent calls of get_pool, from a process that has no pool yet.
PoolNext ==
  \/ \E c \in PoolCallers : GetPoolBegin(c)
  \/ \E c \in PoolCallers : GetPoolCreated(c)

PoolSpec == Init /\ [][PoolNext]_vars

(* ------------------------------ claims -------------------------------- *)

\* start() has exited, by returning or by raising.
StartExited == pc = "done"

\* C1: in every call that passed the handshake step and started the two
\* pumps, _on_disconnect is called at most once at any time and exactly once
\* by the time start() has exited, whichever way it exits (a pump returned,
\* a pump raised, the session task was cancelled while waiting).
C1_OnDisconnectExactlyOnce ==
  PumpsStarted =>
    /\ disconnects <= 1
    /\ (StartExited => disconnects = 1)

\* C1 witness: start() has exited after a pump raised, with the session
\* task cancelled on the way, and post-call processing has run once.
C1_Witness ==
  /\ StartExited /\ PumpsStarted
  /\ t2p = "raised" /\ cancelled
  /\ disconnects = 1
\* The first AI message is the handshake: binary with first byte 0x00.
IsHandshake(m) == m.type = "BINARY" /\ m.kind = 0

\* C2: when the first message received from the AI WebSocket is anything
\* other than a binary message with first byte 0x00, the session is
\* terminated (start() has exited) and neither pump has been started.
C2_BadFirstMessageTerminates ==
  (handshakeMsg # NoMsg /\ ~IsHandshake(handshakeMsg)) =>
    /\ StartExited
    /\ t2p = "idle" /\ p2t = "idle"

\* A pump has ended on its own, by returning or by raising.
SomePumpExited == {t2p, p2t} \cap {"returned", "raised"} # {}

\* C3: once one of the pumps has exited, by returning or by raising,
\* post-call processing begins only with the closing flag set and both
\* pumps finished (the other one cancelled), and start() exits without an
\* exception.
C3_FirstExitCancelsOther ==
  (PumpsStarted /\ SomePumpExited) =>
    /\ (disconnects > 0 => _close /\ t2p \in Terminal /\ p2t \in Terminal)
    /\ (StartExited => exc = None)

\* The call has terminated: both pumps ended, post-call processing ran, the
\* AI WebSocket and the HTTP session are closed.
CallTerminated ==
  /\ t2p \in Terminal /\ p2t \in Terminal
  /\ disconnects >= 1
  /\ ppClosed /\ sessionClosed

\* C4: under fair scheduling, once a pump has received a carrier stop event
\* or a close or error of its WebSocket, the call eventually terminates.
C4_StopOrCloseTerminates == trigger ~> CallTerminated

\* The carrier media envelopes with a decodable payload.
GoodMedia == {m \in CarrierMsgs : m.type = "TEXT" /\ m.json /\ m.event = "media" /\ m.n >= 0}

\* C5: as long as no start event has set the stream id, no step sends a
\* media envelope to the carrier, while a carrier media frame received in
\* that time is still forwarded: its samples reach the buffer of the
\* carrier->AI path (the AI WebSocket being open).
C5_NoCarrierAudioBeforeStart ==
  [][ firstSid = None =>
        /\ twOut' = twOut
        /\ \A m \in GoodMedia :
              (T2PRecvMsg(m) /\ ~ppClosed) =>
                 samplesIn' = samplesIn + Mulaw8kToPcm24kLen(m.n) ]_vars

\* C6: once a start event has set the stream id, no step changes it, and
\* every media envelope sent to the carrier carries that value.
C6_StreamSidImmutable ==
  [][ /\ (_stream_sid # None => _stream_sid' = _stream_sid)
      /\ (firstSid # None /\ twOut' # twOut
            => twOut'[Len(twOut')].streamSid = firstSid) ]_vars
\* Every run of samples in the packets sent so far comes after the one
\* before it in the carrier's sample stream, and every packet is one frame.
RECURSIVE Runs(_)
Runs(packets) ==
  IF packets = <<>> THEN <<>> ELSE Head(packets).frame \o Runs(Tail(packets))

InSampleOrder(packets) ==
  /\ \A i \in 1..Len(packets) : BufLen(packets[i].frame) = OPUS_FRAME_SAMPLES
  /\ \A i \in 1..(Len(Runs(packets)) - 1) :
        LET a == Runs(packets)[i]
            b == Runs(packets)[i + 1]
        IN a.id < b.id \/ (a.id = b.id /\ a.hi <= b.lo)

\* The AI messages the envelopes sent to the carrier were made from.
EnvelopeSources(out) == [i \in 1..Len(out) |-> out[i].src]

\* C7: whenever _send_pcm_to_personaplex has returned (the pump is back at
\* its receive, or has returned itself), the residual buffer holds fewer
\* than 480 samples.
C7_ResidualBelowFrame ==
  t2p \in {"idle", "recv", "returned"} => BufLen(_pcm_buffer) < OPUS_FRAME_SAMPLES

\* C7 witness: a send pass has returned after sending two frames made of
\* two media messages, leaving a residual.
C7_Witness ==
  /\ t2p = "recv" /\ Len(ppOut) >= 2 /\ carrierCount = 2
  /\ _pcm_buffer # <<>>

\* C8 (as stated): the 0x01 packets sent to the AI follow the order of the
\* carrier's samples, and the envelopes sent to the carrier are, one for
\* one and in order, the AI 0x01 frames that decoded.
C8_InOrderOnePerFrame ==
  /\ InSampleOrder(ppOut)
  /\ EnvelopeSources(twOut) = decodedAll

\* C8 (amended): the same, for the AI 0x01 frames that decoded while the
\* carrier WebSocket was open; one decoded after it closed yields nothing.
C8_InOrderOnePerFrameWhileOpen ==
  /\ InSampleOrder(ppOut)
  /\ EnvelopeSources(twOut) = decodedOpen

\* C8 witness: two packets went to the AI, one of them spanning two media
\* messages, and two envelopes went to the carrier.
C8_Witness ==
  /\ Len(ppOut) >= 2 /\ \E i \in 1..Len(ppOut) : Len(ppOut[i].frame) = 2
  /\ Len(twOut) = 2

\* The carrier text frames json.loads rejects, and the media envelopes
\* whose payload cannot be decoded.
BadCarrierText ==
  {m \in CarrierMsgs : m.type = "TEXT" /\ (~m.json \/ (m.event = "media" /\ m.n < 0))}

\* C9: a step in which the carrier->AI pump receives such a frame drops it:
\* the pump is back at its receive and nothing else has changed.
C9_BadCarrierFrameDropped ==
  [][ \A m \in BadCarrierText :
        T2PRecvMsg(m) =>
          /\ t2p' = "recv"
          /\ UNCHANGED <<_stream_sid, _pcm_buffer, ppOut, pc>> ]_vars

\* The AI 0x01 frames by whether opus_decode accepts them.
CorruptAudio == {m \in AIMsgs : m.type = "BINARY" /\ m.kind = 1 /\ ~m.ok}
ValidAudio == {m \in AIMsgs : m.type = "BINARY" /\ m.kind = 1 /\ m.ok}

\* C10: a 0x01 frame that fails to decode changes nothing but the count of
\* messages received, and the pump is back at its receive; a valid 0x01
\* frame, whatever came before it, yields exactly one envelope on the open
\* carrier WebSocket; a frame that fails to encode is never sent, and the
\* pass that skipped it leaves the pump running. The skipped and the sent
\* frames together are in the carrier's sample order.
C10_CodecFailureDropsOnlyTheFrame ==
  [][ /\ \A m \in CorruptAudio :
            P2TRecvMsg(m) =>
              /\ p2t' = "recv"
              /\ UNCHANGED <<twOut, capVars, decodedAll, _stream_sid, ppClosed,
                             twClosed, pc, t2p>>
      /\ \A m \in ValidAudio :
            (P2TRecvMsg(m) /\ ~twClosed) =>
              /\ p2t' = "recv"
              /\ twOut' = Append(twOut, MediaEnvelope(aiCount + 1))
      /\ (encodeDropped' # encodeDropped /\ ~ppClosed) => t2p' \in {"recv", "sending"}
      /\ \A i \in 1..Len(encodeDropped') :
            AudioMsg(encodeDropped'[i]) \notin {ppOut'[j] : j \in 1..Len(ppOut')} ]_vars

\* C10 witness: a corrupt 0x01 frame then a valid one gave one envelope, and
\* on the other path a frame was skipped and a later one sent.
C10_Witness ==
  /\ decodeFailed = <<1>> /\ decodedAll = <<2>> /\ Len(twOut) = 1
  /\ encodeDropped # <<>> /\ ppOut # <<>>
  /\ ppOut[Len(ppOut)].frame[1].id >= encodeDropped[1][1].id
  /\ ppOut[Len(ppOut)].frame[1].lo > encodeDropped[1][1].lo

\* C11: when the connection to the AI fails, or the first AI message is not
\* a binary message with first byte 0x00, no message is persisted, no
\* fact-extraction task is created and no memory is stored (in calls whose
\* session task is not cancelled from outside).
C11_FailedCallWritesNothing ==
  (/\ ~cancelled
   /\ exc = "connect" \/ (handshakeMsg # NoMsg /\ ~IsHandshake(handshakeMsg))) =>
    /\ dbMessages = <<>>
    /\ extractTasks = 0
    /\ memories = 0

\* No operation appears twice in the sequence of calls.
NoRepeat(calls) ==
  \A i, j \in 1..Len(calls) : calls[i] = calls[j] => i = j

\* C12: when a setup operation has raised, start() has exited with that
\* error; no operation was called twice, the AI WebSocket and the HTTP
\* session were never opened, no first message was read, no pump was
\* started and _on_disconnect has not run.
C12_SetupFailureFailsCall ==
  exc = "setup" =>
    /\ StartExited
    /\ NoRepeat(setupCalls)
    /\ ~ppOpened /\ ~sessionOpened
    /\ handshakeMsg = NoMsg
    /\ t2p = "idle" /\ p2t = "idle"
    /\ disconnects = 0 /\ dbMessages = <<>> /\ extractTasks = 0

\* C12 witness: the memory retrieval raised after the user upsert, start()
\* has exited and the handler has ended.
C12_Witness ==
  /\ exc = "setup" /\ StartExited /\ twClosed
  /\ setupCalls = <<"get_or_create_user", "build_memory_context">>

\* _on_disconnect has run to its end without a database error, in a call
\* whose session task was not cancelled from outside.
OnDisconnectCompleted ==
  /\ disconnects = 1 /\ pc \in {"cleanup", "done"} /\ exc # "persist"
  /\ _conversation_id # None
  /\ ~cancelled

\* The rows the claim expects from the transcript and the raw text that
\* _on_disconnect read.
ExpectedRows ==
  IF transcript # <<>>
    THEN [i \in 1..Len(transcript) |->
            MessageRow(transcript[i].role, transcript[i].content)]
    ELSE IF full_text # <<>> THEN <<MessageRow("assistant", full_text)>>
    ELSE <<>>

\* C13: once _on_disconnect has completed, the messages persisted are one
\* per turn of the transcript, in order, with role and content; or, with no
\* turn and a non-empty raw text, one assistant message with that text; or
\* none.
C13_PostCallPersistence ==
  OnDisconnectCompleted => dbMessages = ExpectedRows

\* The states of the extraction task in which its error was not caught.
ExtractUncaught == {"raised"}

\* C14: no step of the fact-extraction task changes the position or the
\* exception of start(), the pumps, or the messages persisted; and the task
\* never ends with an uncaught error: a failure leaves it in the state
\* where the error is caught and logged.
C14_ExtractionFailureContained ==
  [][ (extract # "none" /\ extract' # extract) =>
        /\ extract' \notin ExtractUncaught
        /\ UNCHANGED <<pc, exc, cancelled, t2p, p2t, dbMessages, disconnects,
                       ppClosed, sessionClosed>> ]_vars

\* C14 witness: start() has returned without an exception while the task
\* failed after storing one memory.
C14_Witness ==
  /\ StartExited /\ exc = None /\ PumpsStarted
  /\ extract = "logged" /\ memories = 1 /\ llmCalls = 2

\* C15: _on_disconnect reads the transcript capture only when both pumps
\* have ended, and once it has read it no token is added to the capture.
C15_CaptureReadAfterPumps ==
  [][ /\ (disconnects' > 0 => (t2p' \in Terminal /\ p2t' \in Terminal))
      /\ (disconnects > 0 => _tokens' = _tokens) ]_vars

\* The samples in a sequence of frames.
RECURSIVE FramesLen(_)
FramesLen(frames) ==
  IF frames = <<>> THEN 0 ELSE BufLen(Head(frames)) + FramesLen(Tail(frames))

\* The frames carried by the packets sent to the AI.
SentFrames == [i \in 1..Len(ppOut) |-> ppOut[i].frame]

\* Every sample appended to the buffer is in a packet sent, in a frame whose
\* encoding failed, or still in the buffer.
SamplesAccounted ==
  samplesIn = FramesLen(SentFrames) + FramesLen(encodeDropped) + BufLen(_pcm_buffer)

C17_PacketsAtMostCeiling ==
  Len(ppOut) <= (samplesIn + OPUS_FRAME_SAMPLES - 1) \div OPUS_FRAME_SAMPLES

\* C17 witness: two media messages of 400 bytes gave 2400 samples and five
\* packets.
C17_Witness ==
  /\ samplesIn = 2 * Mulaw8kToPcm24kLen(400)
  /\ Len(ppOut) = 5

\* C18: when start() has exited after _cleanup in a call that started its
\* pumps (and whose session task was not cancelled from outside), no Opus
\* handle created during the call is left unreleased, and the AI WebSocket
\* and the HTTP session are closed.
C18_CleanupReleasesEverything ==
  (PumpsStarted /\ StartExited /\ exc # "persist" /\ ~cancelled) =>
    /\ _encoder # "created" /\ _decoder # "created"
    /\ ppClosed /\ sessionClosed

\* The calls of `ops` that close the current assistant turn.
ClosingOps == {"end_turn", "get_transcript"}

\* The tokens passed to add_token since the last call that closed a turn,
\* in the order of the calls.
RECURSIVE PendingTokens(_)
PendingTokens(ops) ==
  IF ops = <<>> \/ ops[Len(ops)].op \in ClosingOps THEN <<>>
  ELSE IF ops[Len(ops)].op = "add_token"
    THEN Append(PendingTokens(SubSeq(ops, 1, Len(ops) - 1)), ops[Len(ops)].arg)
    ELSE PendingTokens(SubSeq(ops, 1, Len(ops) - 1))

\* The text a call is made with: the pending text for a call that closes
\* the assistant turn, the note for add_user_note.
TextOfCall(ops, i) ==
  IF ops[i].op \in ClosingOps THEN Join(PendingTokens(SubSeq(ops, 1, i - 1)))
  ELSE IF ops[i].op = "add_user_note" THEN ops[i].arg
  ELSE <<>>

\* The turns a sequence of calls is to leave, in the order the calls closed
\* or added them.
RECURSIVE TurnsInCallOrder(_, _)
TurnsInCallOrder(ops, i) ==
  IF i = 0 THEN <<>>
  ELSE LET text == Strip(TextOfCall(ops, i))
           role == IF ops[i].op = "add_user_note" THEN "user" ELSE "assistant"
       IN  IF text = <<>> THEN TurnsInCallOrder(ops, i - 1)
           ELSE Append(TurnsInCallOrder(ops, i - 1),
                       [role |-> role, content |-> text])

\* C19: after any sequence of add_token, end_turn and add_user_note calls
\* followed by get_transcript, every turn of the result has a role in
\* {user, assistant} and a content that equals its own trim and is not
\* empty, the turns are in the order they were closed or added, and the
\* accumulator of the current turn is empty.
C19_TranscriptWellFormed ==
  (tcOps # <<>> /\ tcOps[Len(tcOps)].op = "get_transcript") =>
    /\ \A i \in 1..Len(transcript) :
         /\ transcript[i].role \in {"user", "assistant"}
         /\ transcript[i].content = Strip(transcript[i].content)
         /\ transcript[i].content # <<>>
    /\ transcript = TurnsInCallOrder(tcOps, Len(tcOps))
    /\ _assistant_text = <<>>

\* C19 witness: the tokens " " and "a", then a note, then get_transcript:
\* the assistant turn "a" is closed after the user turn "u" was added.
C19_Witness ==
  /\ tcOps = << TcOp("add_token", <<" ">>), TcOp("add_token", <<"a">>),
                TcOp("add_user_note", <<" ", "u">>),
                TcOp("get_transcript", <<>>) >>
  /\ transcript = << [role |-> "user", content |-> <<"u">>],
                     [role |-> "assistant", content |-> <<"a">>] >>

\* C20: end_turn pushes exactly one assistant turn holding the trimmed
\* concatenation of the tokens accumulated since the previous end_turn
\* when that text is not empty after trimming, pushes nothing otherwise,
\* and in both cases leaves the accumulator empty; an end_turn that follows
\* an end_turn pushes nothing.
C20_EndTurnPushesOnce ==
  [][ tcOps' = Append(tcOps, TcOp("end_turn", <<>>)) =>
        LET text == Strip(Join(PendingTokens(tcOps)))
        IN  /\ _turns' = IF text # <<>>
                           THEN Append(_turns, [role |-> "assistant",
                                                content |-> text])
                           ELSE _turns
            /\ _assistant_text' = <<>>
            /\ (tcOps # <<>> /\ tcOps[Len(tcOps)].op = "end_turn")
                 => _turns' = _turns ]_vars

\* C20 witness: the tokens "a" and " ", then end_turn twice: one assistant
\* turn "a", and an empty accumulator.
C20_Witness ==
  /\ tcOps = << TcOp("add_token", <<"a">>), TcOp("add_token", <<" ">>),
                TcOp("end_turn", <<>>), TcOp("end_turn", <<>>) >>
  /\ _turns = << [role |-> "assistant", content |-> <<"a">>] >>
  /\ _assistant_text = <<>>

\* The tokens passed to add_token by a sequence of calls, in call order.
RECURSIVE TokensAdded(_)
TokensAdded(ops) ==
  IF ops = <<>> THEN <<>>
  ELSE IF ops[Len(ops)].op = "add_token"
    THEN Append(TokensAdded(SubSeq(ops, 1, Len(ops) - 1)), ops[Len(ops)].arg)
    ELSE TokensAdded(SubSeq(ops, 1, Len(ops) - 1))

\* C21: get_full_text returns the concatenation, in arrival order, of every
\* token ever passed to add_token, and end_turn, add_user_note and
\* get_transcript leave the full text as it was.
C21_FullTextIsAllTokens ==
  [][ /\ tcOps' = Append(tcOps, TcOp("get_full_text", <<>>))
          => full_text' = Join(TokensAdded(tcOps))
      /\ (\E o \in {"end_turn", "add_user_note", "get_transcript"} :
             tcOps' # tcOps /\ tcOps'[Len(tcOps')].op = o)
          => GetFullText(_tokens') = GetFullText(_tokens) ]_vars

\* C21 witness: token "a", end_turn, token " ", then get_full_text: the
\* text holds both tokens although the first was closed into a turn.
C21_Witness ==
  /\ tcOps = << TcOp("add_token", <<"a">>), TcOp("end_turn", <<>>),
                TcOp("add_token", <<" ">>), TcOp("get_full_text", <<>>) >>
  /\ full_text = <<"a", " ">>
  /\ _turns = << [role |-> "assistant", content |-> <<"a">>] >>

\* C22: E.164 normalization is idempotent: normalizing what normalize_e164
\* returned returns it unchanged.
C22_NormalizeIdempotent ==
  [][ (phoneCalls > 0 /\ phoneCalls' = phoneCalls + 1) => e164' = e164 ]_vars

\* C22 witness: "415-555-0100" was normalized, and the result normalized
\* again.
C22_Witness ==
  /\ phoneCalls = 2
  /\ phone = <<"+", "1", "4", "1", "5", "5", "5", "5", "0", "1", "0", "0">>
  /\ e164 = phone

AllDigits(s) == \A i \in 1..Len(s) : IsDigit(s[i])
E164Example == <<"+", "1", "4", "1", "5", "5", "5", "5", "0", "1", "0", "0">>

\* C23: normalize_e164 removes every character that is not a digit or a
\* plus sign and then, if the result has no leading plus: a number of
\* exactly 10 digits gets "+1" prepended, a number of 11 digits starting
\* with 1 gets "+" prepended, and anything else gets "+" prepended; the
\* four example inputs all yield "+14155550100".
C23_NormalizeRule ==
  phoneCalls = 1 =>
    LET kept == KeepDigitsAndPlus(phone)
    IN  /\ e164 = IF StartsWith(kept, "+") THEN kept
                  ELSE IF AllDigits(kept) /\ Len(kept) = 10
                    THEN <<"+", "1">> \o kept
                  ELSE <<"+">> \o kept
        /\ phone \in PhoneExamples => e164 = E164Example

\* C24: at call start the caller is normalized to E.164 before the user is
\* upserted: the phone number passed to get_or_create_user is the
\* normalized caller, and two calls whose callers normalize to the same
\* number resolve to the same user.
C24_CallerNormalizedBeforeUpsert ==
  /\ \A i \in 1..Len(upserts) :
       upserts[i].phone_number = normalize_e164(upserts[i].caller)
  /\ \A i, j \in 1..Len(upserts) :
       normalize_e164(upserts[i].caller) = normalize_e164(upserts[j].caller)
         => upserts[i].user = upserts[j].user

\* The memories block: the line <memories>, one line "- [type] content"
\* per memory in retrieval order, the type being "fact" for a row without
\* one, and the line </memories>; every line but the last ends in a newline.
RECURSIVE BlockLines(_)
BlockLines(mems) ==
  IF mems = <<>> THEN <<>>
  ELSE <<"-", " ", "[",
         IF Head(mems).type = NoKey THEN "fact" ELSE Head(mems).type,
         "]", " ", Head(mems).content, NL>> \o BlockLines(Tail(mems))
MemoriesBlock(mems) ==
  <<"<memories>", NL>> \o BlockLines(mems) \o <<"</memories>">>

\* C25: the text prompt is the base instruction alone when no memory is
\* retrieved, and otherwise the base instruction, two newlines and the
\* memories block; an empty memory list renders as the empty string.
C25_TextPromptComposition ==
  promptIn.composed =>
    /\ promptIn.memories = <<>> =>
         /\ memory_context = <<>>
         /\ text_prompt = PromptBase(promptIn.override)
    /\ promptIn.memories # <<>> =>
         text_prompt = PromptBase(promptIn.override) \o <<NL, NL>>
                         \o MemoriesBlock(promptIn.memories)

\* C25 witness: two memories, the second without a type, under the
\* default base instruction.
C25_Witness ==
  /\ promptIn.composed
  /\ ~promptIn.override.given
  /\ promptIn.memories = << [type |-> "preference", content |-> "dark"],
                            [type |-> NoKey, content |-> "Alice"] >>
  /\ text_prompt = BasePrompt \o <<NL, NL, "<memories>", NL,
                     "-", " ", "[", "preference", "]", " ", "dark", NL,
                     "-", " ", "[", "fact", "]", " ", "Alice", NL,
                     "</memories>">>

\* AI binary messages made of a type byte and an empty payload.
EmptyPayloadMsgs == {m \in AIMsgs : m.type = "BINARY" /\ m.empty}

\* C26: an AI binary message that is only a type byte is ignored for every
\* kind: the pump that receives it sends no carrier envelope and leaves the
\* transcript capture unchanged.
C26_EmptyPayloadIgnored ==
  [][ \A m \in EmptyPayloadMsgs :
        P2TRecvMsg(m) => (twOut' = twOut /\ UNCHANGED capVars) ]_vars

\* One memory per element with a non-empty content, in order, tagged with
\* the channel and the conversation; none for the other elements.
RECURSIVE MemoriesDue(_, _)
MemoriesDue(items, channel) ==
  IF items = <<>> THEN <<>>
  ELSE LET fact == Head(items)
       IN  IF fact.obj /\ fact.content \notin {NoKey, ""}
             THEN <<[type |-> IF fact.type = NoKey THEN "fact" ELSE fact.type,
                     content |-> fact.content,
                     source_channel |-> channel,
                     source_conversation_id |-> "C1"]>>
                  \o MemoriesDue(Tail(items), channel)
             ELSE MemoriesDue(Tail(items), channel)

\* C27: extract_facts returns the parsed list for a JSON array and the
\* empty list for a reply that is not JSON or not an array; and, unless
\* store_memory itself failed, process_conversation has then stored exactly
\* one memory per returned fact with a non-empty content, tagged with the
\* channel and the conversation, and none for the other facts.
C27_FactsParsedAndStored ==
  /\ factPc # "idle" =>
       facts = IF factIn.response.json = "array" THEN factIn.response.items
                                                 ELSE <<>>
  /\ factPc \in {"done", "attribute_error"} =>
       stored = MemoriesDue(facts, factIn.channel)

\* The other provider.
OtherProvider(provider) == CHOOSE q \in Providers : q # provider

\* C28: chat() calls the selected provider once and returns its result; if
\* that call raises, it calls the other provider exactly once with that
\* provider's default model and returns its result; if the fallback also
\* raises, the error propagates. No call of chat() makes more than two
\* provider calls, and the fallback is never called when the primary
\* succeeds.
C28_ChatFailover ==
  (chats > 0 /\ ChatProvider(chatIn) \in Providers) =>
    LET selected == ChatProvider(chatIn)
        n == Len(providerCalls)
    IN  /\ n \in {1, 2}
        /\ providerCalls[1].provider = selected
        /\ providerCalls[1].outcome = "ok" =>
             n = 1 /\ chatPc = "returned" /\ chatResult = selected
        /\ providerCalls[1].outcome = "error" =>
             /\ n = 2
             /\ providerCalls[2].provider = OtherProvider(selected)
             /\ providerCalls[2].model =
                  IF OtherProvider(selected) = "claude"
                    THEN "claude-sonnet-4-20250514" ELSE "gpt-4o"
             /\ providerCalls[2].outcome = "ok" =>
                  chatPc = "returned" /\ chatResult = OtherProvider(selected)
             /\ providerCalls[2].outcome = "error" => chatPc = "raised"
        /\ chatPc = "returned" => providerCalls[n].outcome = "ok"
        /\ chatPc = "raised" => n = 2

\* C28 witness: the second call of chat(), for openai by default: openai
\* raised, claude was called with its default model and its reply returned.
C28_Witness ==
  /\ chats = 2 /\ chatPc = "returned" /\ chatResult = "claude"
  /\ chatIn.provider = None /\ chatIn.default_llm_provider = "openai"
  /\ providerCalls =
       << ProviderCall("openai", "gpt-4o", "error"),
          ProviderCall("claude", "claude-sonnet-4-20250514", "ok") >>

Abs(x) == IF x < 0 THEN -x ELSE x

\* C29: for every mu-law byte, decoding it, re-encoding the result with
\* pcm_to_mulaw and decoding again gives a sample within 0.01 of the first
\* decoded sample.
C29_MulawRoundTripClose ==
  mulawPc = "roundtrip" =>
    /\ Len(pcm2) = Len(pcm)
    /\ \A k \in 1..Len(pcm) : 100 * Abs(pcm2[k] - pcm[k]) <= PcmUnit

\* C29 witness: the bytes 0x00, 0x55 and 0xAA went round.
C29_Witness ==
  /\ mulawPc = "roundtrip"
  /\ mulawData = <<0, 85, 170>>
  /\ pcm = <<-32124, -716, 5372>>
  /\ reencoded = mulawData

\* C30: for every mu-law byte sequence b, mulaw_to_pcm(b) has exactly
\* len(b) samples and every sample lies in [-1, 1].
C30_MulawDecodeLengthAndRange ==
  mulawPc # "idle" =>
    /\ Len(pcm) = Len(mulawData)
    /\ \A k \in 1..Len(pcm) : -PcmUnit <= pcm[k] /\ pcm[k] <= PcmUnit

\* C30 witness: the bytes 0x7F, 0x80 and 0x81 were decoded; 0x80 gives the
\* largest sample of the table.
C30_Witness ==
  /\ mulawPc = "decoded"
  /\ mulawData = <<127, 128, 129>>
  /\ pcm = <<0, 32124, 31100>>

\* The calls process_conversation makes to the database and to the LLM.
ExternalCalls ==
  {"get_conversation_messages", "llm_chat", "store_memory", "end_conversation"}

\* The extraction task has ended, by returning or with its error logged.
ExtractOver == extract \in {"done", ExtractFailureHandling}

\* C31: with no message persisted for the conversation the extraction task
\* makes no LLM call and stores no memory; with a message persisted and no
\* database or LLM call failing, the task ends with end_conversation called
\* exactly once, and once it has been called no further memory is stored.
C31_SummaryWrittenOnceAfterMemories ==
  /\ [](dbMessages = <<>> => llmCalls = 0 /\ memories = 0)
  /\ []((ExtractOver /\ dbMessages # <<>> /\ exRaised \notin ExternalCalls)
          => ended = 1)
  /\ [](ended <= 1)
  /\ [][ended > 0 => memories' = memories]_vars

\* The carrier->AI pump is between two carrier messages, every media frame
\* received so far having gone through _send_pcm_to_personaplex to its end
\* with the AI WebSocket open and no frame rejected by the encoder.
MediaAllProcessed ==
  /\ t2p \in {"recv", "returned"}
  /\ mediaDiscarded = {} /\ encodeDropped = <<>>

\* C32: with the AI WebSocket open and every encode succeeding, once the
\* media frames received so far have been processed the 0x01 messages sent
\* to the AI number floor(S / 480), S being the 24 kHz samples produced from
\* those frames, whatever their sizes.
C32_PacketsEqualFloor ==
  MediaAllProcessed => Len(ppOut) = samplesIn \div OPUS_FRAME_SAMPLES

\* C32 witness: a media frame of 400 bytes and one of 160 bytes, 1680
\* samples in all, have given three packets, the third made of the last
\* 240 samples of the first frame and the first 240 of the second; 240
\* samples stay behind.
C32_Witness ==
  /\ MediaAllProcessed /\ t2p = "recv" /\ ~ppClosed
  /\ samplesIn = 1680 /\ Len(ppOut) = 3
  /\ BufLen(_pcm_buffer) = 240
  /\ ppOut[3].frame = <<[id |-> 1, lo |-> 960, hi |-> 1200],
                        [id |-> 2, lo |-> 0, hi |-> 240]>>

\* The transcript a run of tokens gives with no end of turn between them:
\* one assistant turn holding their trimmed concatenation, and no turn when
\* that is empty.
TurnOfTokens(tokens) ==
  IF Strip(Join(tokens)) # <<>>
    THEN <<[role |-> "assistant", content |-> Strip(Join(tokens))]>>
    ELSE <<>>

\* _on_disconnect begins and goes past its early return.
ReadsTranscript ==
  disconnects' = disconnects + 1 /\ _conversation_id # None /\ _user_id # None

\* _on_disconnect has run to its end without a database error.
PersistenceDone ==
  /\ disconnects = 1 /\ pc \in {"cleanup", "done"} /\ exc # "persist"
  /\ _conversation_id # None /\ _user_id # None

OtherEventMsgs ==
  {m \in CarrierMsgs : m.type = "TEXT" /\ m.json
                       /\ m.event \notin {"start", "media", "stop"}}
OtherKindMsgs ==
  {m \in AIMsgs : m.type = "BINARY" /\ m.kind \notin {-1, 1, 2}}

\* C34: a step in which a pump takes such a frame leaves the stream id, the
\* residual buffer and the transcript capture as they were, sends nothing on
\* either WebSocket, and leaves the pump at its receive.
C34_OtherFramesIgnored ==
  [][ /\ \A m \in OtherEventMsgs :
            T2PRecvMsg(m) =>
              /\ UNCHANGED <<_stream_sid, _pcm_buffer, capVars, ppOut, twOut>>
              /\ t2p' = "recv" /\ p2t' = p2t
      /\ \A m \in OtherKindMsgs :
            P2TRecvMsg(m) =>
              /\ UNCHANGED <<_stream_sid, _pcm_buffer, capVars, ppOut, twOut>>
              /\ p2t' = "recv" /\ t2p' = t2p ]_vars

\* C34 witness: after a start and a token, a mark event and a frame of kind
\* 0x00 or 0x03 were taken; the stream id and the capture are as before and
\* both pumps go on.
C34_Witness ==
  /\ carrierIgnored = {2} /\ aiIgnored = {2}
  /\ _stream_sid = "S1" /\ _tokens = << <<"a">> >>
  /\ t2p = "recv" /\ p2t = "recv" /\ ppOut = <<>> /\ twOut = <<>>

\* C35: while a pump is running, the residual buffer, the encoder and the
\* messages sent to the AI change only in steps of the carrier->AI pump, and
\* the decoder, the transcript capture and the messages sent to the carrier
\* only in steps of the AI->carrier pump; a codec handle, once constructed,
\* is never constructed again.
C35_SingleOwner ==
  /\ [][ (PumpsStarted /\ Pending # {}) =>
           /\ (<<_pcm_buffer, _encoder, ppOut>>' # <<_pcm_buffer, _encoder, ppOut>>
                 => (T2PRecv \/ T2PSendResume))
           /\ (<<_decoder, capVars, twOut>>' # <<_decoder, capVars, twOut>>
                 => P2TRecv) ]_vars
  /\ [][ /\ (_encoder # "unset" => _encoder' = _encoder)
         /\ (_decoder # "unset" => _decoder' = _decoder) ]_vars

\* C36: every message row persisted has content that is not empty after
\* trimming, the row of the raw-text fallback included (shown for calls
\* whose session task was not cancelled from outside).
C36_PersistedContentNonEmpty ==
  ~cancelled => \A i \in 1..Len(dbMessages) : Strip(dbMessages[i].content) # <<>>

\* C37: when start() has exited after the AI WebSocket was opened, by
\* whatever path, the AI WebSocket and the HTTP session are closed (shown
\* for calls whose session task was not cancelled from outside).
C37_ClosedOnEveryExit ==
  (StartExited /\ ppOpened /\ ~cancelled) => (ppClosed /\ sessionClosed)

\* C38: once the closing flag is set it stays set, and no step adds a
\* message to those sent on the AI WebSocket or on the carrier WebSocket.
C38_NoWriteAfterClosing ==
  [][_close => (_close' /\ ppOut' = ppOut /\ twOut' = twOut)]_vars

\* C38 witness: the AI side closed while the carrier->AI pump was suspended
\* in send_bytes with a further whole frame in the buffer; the supervisor
\* set the flag and cancelled the pump, and the frame was never sent.
C38_Witness ==
  /\ _close /\ p2t = "returned" /\ t2p = "cancelled"
  /\ Len(ppOut) = 1 /\ BufLen(_pcm_buffer) >= OPUS_FRAME_SAMPLES
  /\ StartExited

\* C39: the extraction task is created at most once and never after a
\* failed add_message; when it exists, every turn of the transcript
\* _on_disconnect read is among the messages persisted, with its role and
\* content, and the messages do not change any more, so that
\* get_conversation_messages in the task reads them all.
C39_ExtractionAfterPersistence ==
  /\ [](extractTasks <= 1)
  /\ [](exc = "persist" => extractTasks = 0 /\ extract = "none")
  /\ [](extractTasks > 0 =>
          /\ Len(dbMessages) >= Len(transcript)
          /\ \A i \in 1..Len(transcript) :
               /\ dbMessages[i].role = transcript[i].role
               /\ dbMessages[i].content = transcript[i].content
               /\ dbMessages[i].conversation = _conversation_id)
  /\ [][extractTasks > 0 => dbMessages' = dbMessages]_vars

\* C39 witness: the task has read the messages of a call whose transcript
\* has one turn, persisted before the task was created.
C39_Witness ==
  /\ extract = "facts" /\ extractTasks = 1
  /\ transcript = <<[role |-> "assistant", content |-> <<"a", "a">>]>>
  /\ dbMessages = <<MessageRow("assistant", <<"a", "a">>)>>

\* C40: however concurrent calls of get_pool interleave, at most one pool
\* is created and the callers that have returned all hold the same pool.
C40_PoolCreatedOnce ==
  /\ poolsCreated <= 1
  /\ \A c, d \in PoolCallers :
       (poolCallers[c].pc = "returned" /\ poolCallers[d].pc = "returned")
         => poolCallers[c].pool = poolCallers[d].pool


====
